---- MODULE Spec2Model ----
(***************************************************************************)
(* Model of the raw TCP HTTP framer of node-basics: the server's 'data'   *)
(* handler (tcp-server/server.ts) and the client's request encoder        *)
(* (tcp-server/client.ts).                                                 *)
(*                                                                         *)
(* A JavaScript string is a sequence of characters, each character a      *)
(* one-symbol TLA+ string.  A Buffer is a sequence of bytes: an ASCII     *)
(* byte is written as its character, and the two bytes of the UTF-8       *)
(* encoding of U+00E9 are written "C3" and "A9".                           *)
(***************************************************************************)
EXTENDS Integers, Sequences, FiniteSets

(***************************************************************************)
(* Characters and bytes                                                    *)
(***************************************************************************)
CR == "\r"
LF == "\n"
SP == " "
TAB == "\t"
COLON == ":"
CRLF == <<CR, LF>>
EAcute == "U+00E9"
Replacement == "U+FFFD"
LeadByte == "C3"
ContByte == "A9"

\* An absent value (JavaScript undefined) is <<>>, a present value v is <<v>>.
Undefined == <<>>
Some(v) == <<v>>

(***************************************************************************)
(* String primitives of the JavaScript runtime, as the handlers use them   *)
(***************************************************************************)
\* s.substring(from - 1): the characters of s from position from on.
Drop(s, n) == SubSeq(s, n + 1, Len(s))
Take(s, n) == SubSeq(s, 1, n)

\* pat occurs in s at position i.
OccursAt(s, pat, i) ==
  /\ i >= 1
  /\ i + Len(pat) - 1 <= Len(s)
  /\ SubSeq(s, i, i + Len(pat) - 1) = pat

\* s.indexOf(pat) + 1: the first position of pat in s, 0 when there is none.
IndexOf(s, pat) ==
  LET hits == {i \in 1..Len(s) : OccursAt(s, pat, i)}
  IN  IF hits = {} THEN 0 ELSE CHOOSE i \in hits : \A j \in hits : i <= j

\* s.includes(pat)
Includes(s, pat) == IndexOf(s, pat) # 0

\* s.split(sep) for a non-empty separator: the pieces between successive,
\* non-overlapping occurrences of sep found left to right; ''.split(sep) = [''].
RECURSIVE Split(_, _)
Split(s, sep) ==
  LET i == IndexOf(s, sep)
  IN  IF i = 0 THEN <<s>>
      ELSE <<Take(s, i - 1)>> \o Split(Drop(s, i + Len(sep) - 1), sep)

\* parts.join(sep)
RECURSIVE Join(_, _)
Join(parts, sep) ==
  IF Len(parts) = 0 THEN <<>>
  ELSE IF Len(parts) = 1 THEN parts[1]
  ELSE parts[1] \o sep \o Join(Tail(parts), sep)

WhiteSpace == {SP, TAB, CR, LF}

\* s.trim()
RECURSIVE TrimStart(_)
TrimStart(s) ==
  IF Len(s) > 0 /\ s[1] \in WhiteSpace THEN TrimStart(Tail(s)) ELSE s

RECURSIVE TrimEnd(_)
TrimEnd(s) ==
  IF Len(s) > 0 /\ s[Len(s)] \in WhiteSpace THEN TrimEnd(Take(s, Len(s) - 1)) ELSE s

Trim(s) == TrimEnd(TrimStart(s))

UpperCase == <<"A","B","C","D","E","F","G","H","I","J","K","L","M",
               "N","O","P","Q","R","S","T","U","V","W","X","Y","Z">>
LowerCase == <<"a","b","c","d","e","f","g","h","i","j","k","l","m",
               "n","o","p","q","r","s","t","u","v","w","x","y","z">>

LowerChar(ch) ==
  IF \E i \in 1..Len(UpperCase) : UpperCase[i] = ch
  THEN LowerCase[CHOOSE i \in 1..Len(UpperCase) : UpperCase[i] = ch]
  ELSE ch

\* s.toLowerCase()
ToLowerCase(s) == [i \in 1..Len(s) |-> LowerChar(s[i])]

\* buffer.toString(): UTF-8 decoding of one Buffer on its own.  A lead byte
\* followed by its continuation byte is one character; a lead byte with no
\* continuation byte after it in this Buffer, and a continuation byte with no
\* lead byte before it, each decode to U+FFFD.  The Buffer is decoded in two
\* halves cut where no lead byte is parted from its continuation byte.
RECURSIVE ToString(_)
ToString(bytes) ==
  IF Len(bytes) = 0 THEN <<>>
  ELSE IF Len(bytes) = 1
       THEN IF bytes[1] \in {LeadByte, ContByte} THEN <<Replacement>> ELSE bytes
  ELSE IF Len(bytes) = 2 /\ bytes[1] = LeadByte /\ bytes[2] = ContByte THEN <<EAcute>>
  ELSE LET mid == Len(bytes) \div 2
           cut == IF bytes[mid] = LeadByte /\ bytes[mid + 1] = ContByte
                  THEN mid + 1 ELSE mid
       IN  ToString(Take(bytes, cut)) \o ToString(Drop(bytes, cut))

\* The UTF-8 bytes of one character.
CharBytes(ch) ==
  IF ch = EAcute THEN <<LeadByte, ContByte>>
  ELSE IF ch = Replacement THEN <<"EF", "BF", "BD">>
  ELSE <<ch>>

\* Buffer.from(s): the UTF-8 encoding socket.write(s) puts on the wire.
RECURSIVE ToBytes(_)
ToBytes(s) ==
  IF Len(s) = 0 THEN <<>>
  ELSE IF Len(s) = 1 THEN CharBytes(s[1])
  ELSE ToBytes(Take(s, Len(s) \div 2)) \o ToBytes(Drop(s, Len(s) \div 2))

\* Buffer.byteLength(s): the number of bytes of the UTF-8 encoding of s
ByteLength(s) ==
  Len(s) + Cardinality({i \in 1..Len(s) : s[i] = EAcute})
         + 2 * Cardinality({i \in 1..Len(s) : s[i] = Replacement})

RECURSIVE DigitsOf(_)
DigitsOf(n) ==
  LET d == <<"0","1","2","3","4","5","6","7","8","9">>
  IN  IF n < 10 THEN <<d[n + 1]>> ELSE DigitsOf(n \div 10) \o <<d[(n % 10) + 1]>>

(***************************************************************************)
(* Constant texts of tcp-server/server.ts                                  *)
(***************************************************************************)
\* server.ts 65-78: the body of '/'
HtmlBody ==
  <<"<","!","D","O","C","T","Y","P","E"," ","h","t","m","l",">","\n","<","h","t","m","l",">",
    "\n","<","h","e","a","d",">","<","t","i","t","l","e",">","R","a","w"," ","T","C","P"," ",
    "S","e","r","v","e","r","<","/","t","i","t","l","e",">","<","/","h","e","a","d",">","\n",
    "<","b","o","d","y",">","\n"," "," ","<","h","1",">","H","e","l","l","o"," ","f","r","o",
    "m"," ","R","a","w"," ","T","C","P"," ","S","e","r","v","e","r","!","<","/","h","1",">",
    "\n"," "," ","<","p",">","T","h","i","s"," ","r","e","s","p","o","n","s","e"," ","w","a",
    "s"," ","c","r","a","f","t","e","d"," ","m","a","n","u","a","l","l","y"," ","a","s"," ","a",
    " ","s","t","r","i","n","g",".","<","/","p",">","\n"," "," ","<","p",">","T","r","y"," ",
    "t","h","e","s","e"," ","p","a","t","h","s",":","<","/","p",">","\n"," "," ","<","u","l",
    ">","\n"," "," "," "," ","<","l","i",">","<","a"," ","h","r","e","f","=","\"","/","j","s",
    "o","n","\"",">","/","j","s","o","n","<","/","a",">"," ","-"," ","G","e","t"," ","J","S",
    "O","N"," ","d","a","t","a","<","/","l","i",">","\n"," "," "," "," ","<","l","i",">","<",
    "a"," ","h","r","e","f","=","\"","/","t","i","m","e","\"",">","/","t","i","m","e","<","/",
    "a",">"," ","-"," ","G","e","t"," ","c","u","r","r","e","n","t"," ","t","i","m","e","<","/",
    "l","i",">","\n"," "," "," "," ","<","l","i",">","<","a"," ","h","r","e","f","=","\"","/",
    "n","o","t","f","o","u","n","d","\"",">","/","n","o","t","f","o","u","n","d","<","/","a",
    ">"," ","-"," ","S","e","e"," ","a"," ","4","0","4","<","/","l","i",">","\n"," "," ","<",
    "/","u","l",">","\n","<","/","b","o","d","y",">","\n","<","/","h","t","m","l",">">>

StatusOk ==
  <<"2","0","0"," ","O","K">>

StatusNotFound ==
  <<"4","0","4"," ","N","o","t"," ","F","o","u","n","d">>

TextHtml ==
  <<"t","e","x","t","/","h","t","m","l">>

TextPlain ==
  <<"t","e","x","t","/","p","l","a","i","n">>

ApplicationJson ==
  <<"a","p","p","l","i","c","a","t","i","o","n","/","j","s","o","n">>

JsonMessage ==
  <<"T","h","i","s"," ","i","s"," ","J","S","O","N"," ","f","r","o","m"," ","a"," ","r","a","w",
    " ","T","C","P"," ","s","e","r","v","e","r">>

TimePrefix ==
  <<"C","u","r","r","e","n","t"," ","s","e","r","v","e","r"," ","t","i","m","e",":"," ">>

NotFoundPrefix ==
  <<"4","0","4"," ","-"," ","P","a","t","h"," ","\"">>

NotFoundSuffix ==
  <<"\""," ","n","o","t"," ","f","o","u","n","d">>

UndefinedText ==
  <<"u","n","d","e","f","i","n","e","d">>

ResponseProtocol ==
  <<"H","T","T","P","/","1",".","1"," ">>

ContentTypeName ==
  <<"C","o","n","t","e","n","t","-","T","y","p","e",":"," ">>

ContentLengthName ==
  <<"C","o","n","t","e","n","t","-","L","e","n","g","t","h",":"," ">>

ConnectionClose ==
  <<"C","o","n","n","e","c","t","i","o","n",":"," ","c","l","o","s","e">>

DateName ==
  <<"D","a","t","e",":"," ">>

ServerLine ==
  <<"S","e","r","v","e","r",":"," ","R","a","w","T","C","P","-","S","e","r","v","e","r","/","1",
    ".","0">>

Iso1 ==
  <<"2","0","2","5","-","0","1","-","0","1","T","0","0",":","0","0",":","0","0",".","0","0","0",
    "Z">>

Utc1 ==
  <<"W","e","d",","," ","0","1"," ","J","a","n"," ","2","0","2","5"," ","0","0",":","0","0",":",
    "0","0"," ","G","M","T">>

Iso2 ==
  <<"2","0","2","5","-","0","1","-","0","1","T","0","0",":","0","0",":","0","1",".","0","0","0",
    "Z">>

Utc2 ==
  <<"W","e","d",","," ","0","1"," ","J","a","n"," ","2","0","2","5"," ","0","0",":","0","0",":",
    "0","1"," ","G","M","T">>

\* The successive instants the clock can show while a handler runs: new Date()
\* as toISOString() and as toUTCString().
Clock == <<[iso |-> Iso1, utc |-> Utc1], [iso |-> Iso2, utc |-> Utc2]>>

(***************************************************************************)
(* The request decoder: server.ts, socket.on('data'), lines 26-51         *)
(***************************************************************************)
Boundary == CRLF \o CRLF

\* A decoder that takes the end of the first line for the end of the headers.
HasBoundaryLineEnd(requestData) == Includes(requestData, CRLF)

\* A decoder that takes two line feeds in a row for the end of the headers too.
HasBoundaryBareLF(requestData) ==
  Includes(requestData, Boundary) \/ Includes(requestData, <<LF, LF>>)

\* server.ts 26: requestData.includes('\r\n\r\n')
HasBoundary(requestData) == Includes(requestData, Boundary)

\* A Record<string, string>: a function from keys to values.
EmptyRecord == [k \in {} |-> <<>>]
Put(rec, key, value) ==
  [k \in (DOMAIN rec) \cup {key} |-> IF k = key THEN value ELSE rec[k]]

\* A start-line decoder that folds the text after the third token into the
\* third field.
StartLineFieldsFolded(startLine) ==
  LET tokens == Split(startLine, <<SP>>)
      field(i) == IF i <= Len(tokens) THEN Some(tokens[i]) ELSE Undefined
  IN  [method |-> field(1), path |-> field(2),
       protocol |-> IF Len(tokens) >= 3
                    THEN Some(Join(SubSeq(tokens, 3, Len(tokens)), <<SP>>))
                    ELSE Undefined]

\* A start-line decoder that supplies '/' for a missing path.
StartLineFieldsDefaultPath(startLine) ==
  LET tokens == Split(startLine, <<SP>>)
      field(i) == IF i <= Len(tokens) THEN Some(tokens[i]) ELSE Undefined
  IN  [method |-> field(1),
       path |-> IF Len(tokens) >= 2 THEN Some(tokens[2]) ELSE Some(<<"/">>),
       protocol |-> field(3)]

\* server.ts 33: const [method, path, protocol] = lines[0]?.split(' ') || []
StartLineFields(startLine) ==
  LET tokens == Split(startLine, <<SP>>)
      field(i) == IF i <= Len(tokens) THEN Some(tokens[i]) ELSE Undefined
  IN  [method |-> field(1), path |-> field(2), protocol |-> field(3)]

\* A header-line decoder that re-joins the value pieces without their colons.
HeaderLineJoinNone(line, acc) ==
  LET parts == Split(line, <<COLON>>)
      key == parts[1]
      values == Tail(parts)
  IN  IF key # <<>> /\ Len(values) > 0
      THEN [headers  |-> Put(acc.headers, ToLowerCase(Trim(key)),
                             Trim(Join(values, <<>>))),
            headers2 |-> Put(acc.headers2, ToLowerCase(Trim(key)),
                             Trim(Join(values, <<>>)))]
      ELSE acc

\* A header-line decoder that records a line without a colon as a key with an
\* empty value.
HeaderLineKeepBare(line, acc) ==
  LET parts == Split(line, <<COLON>>)
      key == parts[1]
      values == Tail(parts)
      value == Trim(Join(values, <<COLON>>))
  IN  IF key # <<>>
      THEN [headers  |-> Put(acc.headers, ToLowerCase(Trim(key)), value),
            headers2 |-> Put(acc.headers2, ToLowerCase(Trim(key)), value)]
      ELSE acc

\* A header-line decoder in which the first occurrence of a name wins.
HeaderLineFirstWins(line, acc) ==
  LET parts == Split(line, <<COLON>>)
      key == parts[1]
      values == Tail(parts)
      name == ToLowerCase(Trim(key))
  IN  IF key # <<>> /\ Len(values) > 0 /\ name \notin DOMAIN acc.headers
      THEN [headers  |-> Put(acc.headers, name, Trim(Join(values, <<COLON>>))),
            headers2 |-> Put(acc.headers2, name, Trim(Join(values, <<>>)))]
      ELSE acc

\* server.ts 45-50: one header line into the two records
HeaderLine(line, acc) ==
  LET parts == Split(line, <<COLON>>)
      key == parts[1]
      values == Tail(parts)
  IN  IF key # <<>> /\ Len(values) > 0
      THEN [headers  |-> Put(acc.headers, ToLowerCase(Trim(key)),
                             Trim(Join(values, <<COLON>>))),
            headers2 |-> Put(acc.headers2, ToLowerCase(Trim(key)),
                             Trim(Join(values, <<>>)))]
      ELSE acc

\* A loop that skips an empty line and goes on through the lines of the body.
RECURSIVE HeaderLoopNoBreak(_, _, _)
HeaderLoopNoBreak(lines, i, acc) ==
  IF i > Len(lines) THEN acc
  ELSE IF lines[i] = <<>> THEN HeaderLoopNoBreak(lines, i + 1, acc)
  ELSE HeaderLoopNoBreak(lines, i + 1, HeaderLine(lines[i], acc))

\* server.ts 43-51: the loop over lines[1..], stopped by the first empty line
RECURSIVE HeaderLoop(_, _, _)
HeaderLoop(lines, i, acc) ==
  IF i > Len(lines) THEN acc
  ELSE IF lines[i] = <<>> THEN acc
  ELSE HeaderLoop(lines, i + 1, HeaderLine(lines[i], acc))

\* server.ts 32-51: what the handler reads out of requestData
ParseRequest(requestData) ==
  LET lines == Split(requestData, CRLF)
      start == StartLineFields(lines[1])
      maps  == HeaderLoop(lines, 2, [headers |-> EmptyRecord, headers2 |-> EmptyRecord])
  IN  [method |-> start.method, path |-> start.path, protocol |-> start.protocol,
       headers |-> maps.headers, headers2 |-> maps.headers2]

(***************************************************************************)
(* The router and the response: server.ts 58-108                           *)
(***************************************************************************)
\* JSON.stringify of one character inside a string
JsonChar(ch) ==
  IF ch = "\"" THEN <<"\\", "\"">>
  ELSE IF ch = "\\" THEN <<"\\", "\\">>
  ELSE IF ch = LF THEN <<"\\", "n">>
  ELSE IF ch = CR THEN <<"\\", "r">>
  ELSE IF ch = TAB THEN <<"\\", "t">>
  ELSE <<ch>>

RECURSIVE JsonEscape(_)
JsonEscape(s) == IF Len(s) = 0 THEN <<>> ELSE JsonChar(s[1]) \o JsonEscape(Tail(s))

JsonString(s) == <<"\"">> \o JsonEscape(s) \o <<"\"">>

\* One "name": "value" member at indent 2.
JsonMember(name, value) == <<LF, SP, SP>> \o JsonString(name) \o <<":", SP>> \o JsonString(value)

\* server.ts 81-90: JSON.stringify({message, timestamp, method, path}, null, 2);
\* a member whose value is undefined is left out.
JsonBody(method, path, now) ==
  <<"{">>
  \o JsonMember(<<"m","e","s","s","a","g","e">>, JsonMessage) \o <<",">>
  \o JsonMember(<<"t","i","m","e","s","t","a","m","p">>, now.iso)
  \o (IF method = Undefined THEN <<>>
      ELSE <<",">> \o JsonMember(<<"m","e","t","h","o","d">>, method[1]))
  \o (IF path = Undefined THEN <<>>
      ELSE <<",">> \o JsonMember(<<"p","a","t","h">>, path[1]))
  \o <<LF, "}">>

\* `${path}` in a template literal
Interpolate(v) == IF v = Undefined THEN UndefinedText ELSE v[1]

\* A router that matches a route by prefix: '/json/' and '/timer' are routed
\* as '/json' and '/time'.
RoutePrefix(method, path, now) ==
  LET StartsWith(pre) == path # Undefined /\ OccursAt(path[1], pre, 1)
  IN  IF path = Some(<<"/">>)
      THEN [statusCode |-> StatusOk, contentType |-> TextHtml, body |-> HtmlBody]
      ELSE IF StartsWith(<<"/","j","s","o","n">>)
      THEN [statusCode |-> StatusOk, contentType |-> ApplicationJson,
            body |-> JsonBody(method, path, now)]
      ELSE IF StartsWith(<<"/","t","i","m","e">>)
      THEN [statusCode |-> StatusOk, contentType |-> TextPlain, body |-> TimePrefix \o now.iso]
      ELSE [statusCode |-> StatusNotFound, contentType |-> TextPlain,
            body |-> NotFoundPrefix \o Interpolate(path) \o NotFoundSuffix]

\* server.ts 59-98: status, content type and body by path
Route(method, path, now) ==
  IF path = Some(<<"/">>)
  THEN [statusCode |-> StatusOk, contentType |-> TextHtml, body |-> HtmlBody]
  ELSE IF path = Some(<<"/","j","s","o","n">>)
  THEN [statusCode |-> StatusOk, contentType |-> ApplicationJson,
        body |-> JsonBody(method, path, now)]
  ELSE IF path = Some(<<"/","t","i","m","e">>)
  THEN [statusCode |-> StatusOk, contentType |-> TextPlain, body |-> TimePrefix \o now.iso]
  ELSE [statusCode |-> StatusNotFound, contentType |-> TextPlain,
        body |-> NotFoundPrefix \o Interpolate(path) \o NotFoundSuffix]

\* A response text whose Content-Length counts characters (body.length), not
\* bytes.
HttpResponseCharLength(route, now) ==
  ResponseProtocol \o route.statusCode \o CRLF
  \o ContentTypeName \o route.contentType \o CRLF
  \o ContentLengthName \o DigitsOf(Len(route.body)) \o CRLF
  \o ConnectionClose \o CRLF
  \o DateName \o now.utc \o CRLF
  \o ServerLine \o CRLF
  \o CRLF
  \o route.body

\* server.ts 100-108: the response text
HttpResponse(route, now) ==
  ResponseProtocol \o route.statusCode \o CRLF
  \o ContentTypeName \o route.contentType \o CRLF
  \o ContentLengthName \o DigitsOf(ByteLength(route.body)) \o CRLF
  \o ConnectionClose \o CRLF
  \o DateName \o now.utc \o CRLF
  \o ServerLine \o CRLF
  \o CRLF
  \o route.body

(***************************************************************************)
(* The requests peers send                                                 *)
(***************************************************************************)
StartRoot ==
  <<"G","E","T"," ","/"," ","H","T","T","P","/","1",".","1">>

StartJson ==
  <<"G","E","T"," ","/","j","s","o","n"," ","H","T","T","P","/","1",".","1">>

StartPostJson ==
  <<"P","O","S","T"," ","/","j","s","o","n"," ","H","T","T","P","/","1",".","1">>

StartAccent ==
  <<"G","E","T"," ","/",EAcute," ","H","T","T","P","/","1",".","1">>

StartTime ==
  <<"G","E","T"," ","/","t","i","m","e"," ","H","T","T","P","/","1",".","1">>

StartJsonSlash ==
  <<"G","E","T"," ","/","j","s","o","n","/"," ","H","T","T","P","/","1",".","1">>

StartOneToken ==
  <<"G","E","T">>

StartExtra ==
  <<"G","E","T"," ","/","n","o","p","e"," ","H","T","T","P","/","1",".","1"," ","e","x","t","r",
    "a">>

StartTwoSpaces ==
  <<"G","E","T"," "," ","/","j","s","o","n"," ","H","T","T","P","/","1",".","1">>

HeaderHostX ==
  <<"H","o","s","t",":"," ","x">>

HeaderContentLength4 ==
  <<"C","o","n","t","e","n","t","-","L","e","n","g","t","h",":"," ","4">>

HeaderContentType ==
  <<"C","o","n","t","e","n","t","-","T","y","p","e",":"," ","a","p","p","l","i","c","a","t","i",
    "o","n","/","j","s","o","n">>

HeaderHostPort ==
  <<"H","o","s","t",":"," ","l","o","c","a","l","h","o","s","t",":","8","0","8","0">>

HeaderHostLower ==
  <<"h","o","s","t",":"," ","b">>

HeaderGarbage ==
  <<"g","a","r","b","a","g","e">>

HeaderNoKey ==
  <<":"," ","v">>

HeaderBlankKey ==
  <<" ",":"," ","v">>

HeaderPadded ==
  <<"X","-","A"," ",":"," "," ","p"," ","q"," "," ">>

HeaderNoValue ==
  <<"A","c","c","e","p","t",":">>

StartEmbeddedLF ==
  <<"G","E","T"," ","/","t","i","m","e"," ","H","T","T","P","/","1",".","1",LF,
    "H","o","s","t",":"," ","x">>

HeaderEmbeddedLF ==
  <<"A",":"," ","1",LF,"B",":"," ","2">>

BodyHostLike ==
  <<"H","o","s","t",":"," ","z",CR,LF,"X",":"," ","y">>

BodyHeaderLike ==
  <<"X",":"," ","y">>

\* A peer's request: a start line, header lines, the line terminator it uses
\* and the bytes it sends after the blank line.
Request(startLine, headerLines, eol, body) ==
  [kind |-> "raw", startLine |-> startLine, headerLines |-> headerLines,
   eol |-> eol, body |-> body]

RECURSIVE Terminated(_, _)
Terminated(lines, eol) ==
  IF Len(lines) = 0 THEN <<>> ELSE lines[1] \o eol \o Terminated(Tail(lines), eol)

\* The text of a peer's request.
RequestText(r) ==
  r.startLine \o r.eol \o Terminated(r.headerLines, r.eol) \o r.eol \o r.body

\* The requests of the server's single client.
Requests ==
  { Request(StartRoot, <<HeaderHostX>>, CRLF, <<>>),
    Request(StartPostJson, <<HeaderContentLength4>>, CRLF, BodyHeaderLike),
    Request(StartAccent, <<>>, CRLF, <<>>),
    Request(StartOneToken, <<>>, CRLF, <<>>),
    Request(StartTime, <<>>, CRLF, <<>>),
    Request(StartTime, <<HeaderHostX>>, <<LF>>, <<>>) }

\* The requests the decoder is run on as a function: every start line, and
\* every sequence of at most MaxHeaderLines header lines.
MaxHeaderLines == 3

StartLines ==
  {<<>>, <<SP>>, StartOneToken, StartRoot, StartJson, StartExtra, StartTwoSpaces,
   StartTime, StartJsonSlash, StartEmbeddedLF}

HeaderLines ==
  {HeaderContentType, HeaderHostPort, HeaderHostLower, HeaderGarbage,
   HeaderNoKey, HeaderBlankKey, HeaderPadded, HeaderNoValue}

SeqsUpTo(S, n) == UNION {[1..k -> S] : k \in 0..n}

DecoderRequests ==
  { Request(st, <<HeaderHostPort>>, CRLF, <<>>) : st \in StartLines }
  \cup { Request(StartPostJson, hs, CRLF, BodyHeaderLike) :
           hs \in SeqsUpTo(HeaderLines, MaxHeaderLines) }
  \cup { Request(StartTime, <<HeaderHostX>>, <<LF>>, <<>>),
         Request(StartRoot, <<HeaderEmbeddedLF>>, CRLF, <<>>),
         Request(StartPostJson, <<HeaderHostPort>>, CRLF, BodyHostLike) }

(***************************************************************************)
(* The client's request encoder: client.ts, makeRawRequest, lines 24-45    *)
(***************************************************************************)
ProtocolSuffix ==
  <<" ","H","T","T","P","/","1",".","1">>

HostName ==
  <<"H","o","s","t",":"," ">>

MethodGet ==
  <<"G","E","T">>

MethodPost ==
  <<"P","O","S","T">>

PathRoot ==
  <<"/">>

PathJson ==
  <<"/","j","s","o","n">>

HostLocal ==
  <<"1","2","7",".","0",".","0",".","1">>

NameAccept ==
  <<"A","c","c","e","p","t">>

NameConnection ==
  <<"C","o","n","n","e","c","t","i","o","n">>

NameXId ==
  <<"X","-","I","d">>

NameHostLower ==
  <<"h","o","s","t">>

ValueJson ==
  <<"a","p","p","l","i","c","a","t","i","o","n","/","j","s","o","n">>

ValueKeepAlive ==
  <<"k","e","e","p","-","a","l","i","v","e">>

ValueColon ==
  <<"a",":","b">>

ValueExample ==
  <<"e","x","a","m","p","l","e">>

BodyHi ==
  <<"h","i">>

BodyAccent ==
  <<EAcute>>

\* The entries of headers written last to first.
RECURSIVE HeaderEntriesReversed(_)
HeaderEntriesReversed(headers) ==
  IF Len(headers) = 0 THEN <<>>
  ELSE HeaderEntriesReversed(Tail(headers))
       \o headers[1][1] \o <<COLON, SP>> \o headers[1][2] \o CRLF

\* client.ts 31-33: one line per entry of headers, in Object.entries order.
\* headers is a sequence of <<key, value>> pairs with distinct keys.
RECURSIVE HeaderEntries(_)
HeaderEntries(headers) ==
  IF Len(headers) = 0 THEN <<>>
  ELSE headers[1][1] \o <<COLON, SP>> \o headers[1][2] \o CRLF \o HeaderEntries(Tail(headers))

\* A request text whose Content-Length counts characters (body.length), not
\* bytes.
MakeRawRequestCharLength(o) ==
  o.method \o <<SP>> \o o.path \o ProtocolSuffix \o CRLF
  \o HostName \o o.host \o CRLF
  \o HostName \o o.host \o CRLF
  \o HeaderEntries(o.headers)
  \o (IF o.body # <<>>
      THEN ContentLengthName \o DigitsOf(Len(o.body)) \o CRLF
      ELSE <<>>)
  \o ConnectionClose \o CRLF
  \o CRLF
  \o (IF o.body # <<>> THEN o.body ELSE <<>>)

\* client.ts 24-45: the request text written to the socket
MakeRawRequest(o) ==
  o.method \o <<SP>> \o o.path \o ProtocolSuffix \o CRLF
  \o HostName \o o.host \o CRLF
  \o HostName \o o.host \o CRLF
  \o HeaderEntries(o.headers)
  \o (IF o.body # <<>>
      THEN ContentLengthName \o DigitsOf(ByteLength(o.body)) \o CRLF
      ELSE <<>>)
  \o ConnectionClose \o CRLF
  \o CRLF
  \o (IF o.body # <<>> THEN o.body ELSE <<>>)

\* The options makeRawRequest is called with: at most MaxClientHeaders headers.
MaxClientHeaders == 2

ClientHeaders ==
  { <<NameAccept, ValueJson>>, <<NameConnection, ValueKeepAlive>>,
    <<NameXId, ValueColon>>, <<NameHostLower, ValueExample>> }

DistinctKeys(headers) ==
  \A i, j \in 1..Len(headers) : headers[i][1] = headers[j][1] => i = j

ClientOptions ==
  { [kind |-> "client", method |-> m, path |-> p, host |-> HostLocal, headers |-> hs,
     body |-> b] :
      m \in {MethodGet, MethodPost}, p \in {PathRoot, PathJson},
      hs \in {h \in SeqsUpTo(ClientHeaders, MaxClientHeaders) : DistinctKeys(h)},
      b \in {<<>>, BodyHi, BodyAccent} }

(***************************************************************************)
(* The server: one handler set per accepted connection (server.ts 17-132) *)
(***************************************************************************)
Conns == {"c1", "c2"}

VARIABLES
  phase,        \* per connection: "none" (not accepted yet), "open", "closed"
  peer,         \* what the peer of the connection set out to send
  pending,      \* bytes the peer has still to send
  received,     \* bytes delivered to the 'data' handler so far
  requestData,  \* server.ts 20: the handler's accumulated string
  parsed,       \* the requests parsed (and logged) by the handler, in order
  written,      \* the responses socket.write() accepted, in order
  ended,        \* socket.end() was called: the writable side is finished
  peerEnded,    \* the 'end' event fired: the peer finished its side
  errors,       \* the errors handed to socket.on('error'), in order
  client,       \* client.ts: the script that awaits one makeRawRequest call
  raw,          \* raw-tcp-experiment.ts: one rawHttpRequest call
  fetch,        \* the HTTPS client script: one fetchData call
  reader,       \* the read cache script: the cache, its callers and their callbacks
  counter       \* word-count-in-file.ts: one countWordOccurrences call

serverVars ==
  <<phase, peer, pending, received, requestData, parsed, written, ended, peerEnded, errors>>

clientVars == <<client, raw, fetch>>

scriptVars == <<reader, counter>>

vars == <<serverVars, clientVars, scriptVars>>

NoPeer == [kind |-> "none"]

\* client.ts 13, 56 and 86: nothing called yet, the promise not yet made.
ClientIdle ==
  [state |-> "idle", options |-> NoPeer, sent |-> <<>>, inbound |-> <<>>, response |-> <<>>,
   shown |-> Undefined, promise |-> [state |-> "pending", value |-> <<>>], connects |-> 0,
   script |-> "start"]

\* raw-tcp-experiment.ts 47-48: responseData = '', chunkCount = 0.
RawIdle ==
  [state |-> "idle", host |-> <<>>, path |-> <<>>, sent |-> <<>>, inbound |-> <<>>,
   responseData |-> <<>>, chunkCount |-> 0, result |-> Undefined, timedOut |-> FALSE,
   errors |-> <<>>]

\* The HTTPS client script, lines 32-33: chunks = [], chunkCount = 0.
FetchIdle ==
  [state |-> "idle", meta |-> Undefined, inbound |-> <<>>, chunks |-> <<>>, chunkCount |-> 0,
   previews |-> <<>>, result |-> Undefined, timedOut |-> FALSE, errors |-> <<>>]

\* The read cache script, line 92: cache = new Map(); nothing called yet.
ReaderIdle ==
  [cache |-> [f \in {} |-> <<>>], calls |-> 0, ticks |-> <<>>, reads |-> {}, log |-> <<>>]

\* word-count-in-file.ts 53: countWordOccurrences not yet called.
CounterIdle ==
  [state |-> "idle", opened |-> FALSE, file |-> <<>>, lines |-> <<>>, searchWord |-> <<>>, count |-> 0,
   closeListeners |-> 0, resolves |-> 0, promise |-> [state |-> "pending", value |-> <<>>]]

Init ==
  /\ phase = [c \in Conns |-> "none"]
  /\ peer = [c \in Conns |-> NoPeer]
  /\ pending = [c \in Conns |-> <<>>]
  /\ received = [c \in Conns |-> <<>>]
  /\ requestData = [c \in Conns |-> <<>>]
  /\ parsed = [c \in Conns |-> <<>>]
  /\ written = [c \in Conns |-> <<>>]
  /\ ended = [c \in Conns |-> FALSE]
  /\ peerEnded = [c \in Conns |-> FALSE]
  /\ errors = [c \in Conns |-> <<>>]
  /\ client = ClientIdle
  /\ raw = RawIdle
  /\ fetch = FetchIdle
  /\ reader = ReaderIdle
  /\ counter = CounterIdle

\* server.ts 17-20: the connection callback; requestData starts empty.  The
\* peer p will send the bytes of text.
Connection(c, p, text) ==
  /\ phase[c] = "none"
  /\ phase' = [phase EXCEPT ![c] = "open"]
  /\ peer' = [peer EXCEPT ![c] = p]
  /\ pending' = [pending EXCEPT ![c] = ToBytes(text)]
  /\ requestData' = [requestData EXCEPT ![c] = <<>>]
  /\ UNCHANGED <<received, parsed, written, ended, peerEnded, errors>>
  /\ UNCHANGED <<clientVars, scriptVars>>

\* A 'data' handler whose requestData is one string for the whole server,
\* declared outside the connection callback: every connection appends to it.
OnDataSharedBuffer(c, chunk, tBody, tDate) ==
  LET shared  == CHOOSE d \in Conns : \A e \in Conns : Len(requestData[e]) <= Len(requestData[d])
      data    == requestData[shared] \o ToString(chunk)
      request == ParseRequest(data)
      route   == Route(request.method, request.path, tBody)
  IN  /\ requestData' = [d \in Conns |-> data]
      /\ IF HasBoundary(data)
         THEN /\ parsed' = [parsed EXCEPT ![c] = Append(@, request)]
              /\ IF ended[c]
                 THEN /\ errors' = [errors EXCEPT ![c] = Append(@, "ERR_STREAM_WRITE_AFTER_END")]
                      /\ phase' = [phase EXCEPT ![c] = "closed"]
                      /\ UNCHANGED written
                 ELSE /\ written' = [written EXCEPT ![c] = Append(@, HttpResponse(route, tDate))]
                      /\ UNCHANGED <<errors, phase>>
              /\ ended' = [ended EXCEPT ![c] = TRUE]
         ELSE UNCHANGED <<parsed, written, ended, errors, phase>>

\* A 'data' handler that looks for the boundary in the new chunk only.
OnDataScanChunk(c, chunk, tBody, tDate) ==
  LET data    == requestData[c] \o ToString(chunk)
      request == ParseRequest(data)
      route   == Route(request.method, request.path, tBody)
  IN  /\ requestData' = [requestData EXCEPT ![c] = data]
      /\ IF HasBoundary(ToString(chunk))
         THEN /\ parsed' = [parsed EXCEPT ![c] = Append(@, request)]
              /\ IF ended[c]
                 THEN /\ errors' = [errors EXCEPT ![c] = Append(@, "ERR_STREAM_WRITE_AFTER_END")]
                      /\ phase' = [phase EXCEPT ![c] = "closed"]
                      /\ UNCHANGED written
                 ELSE /\ written' = [written EXCEPT ![c] = Append(@, HttpResponse(route, tDate))]
                      /\ UNCHANGED <<errors, phase>>
              /\ ended' = [ended EXCEPT ![c] = TRUE]
         ELSE UNCHANGED <<parsed, written, ended, errors, phase>>

\* The number a string of decimal digits denotes.
RECURSIVE NatOf(_)
NatOf(digits) ==
  LET d == <<"0","1","2","3","4","5","6","7","8","9">>
  IN  IF Len(digits) = 0 THEN 0
      ELSE 10 * NatOf(Take(digits, Len(digits) - 1))
           + (CHOOSE n \in 0..9 : d[n + 1] = digits[Len(digits)])

\* A 'data' handler that waits for the body a Content-Length header announces
\* before it dispatches.
OnDataAwaitBody(c, chunk, tBody, tDate) ==
  LET data     == requestData[c] \o ToString(chunk)
      request  == ParseRequest(data)
      route    == Route(request.method, request.path, tBody)
      name     == <<"c","o","n","t","e","n","t","-","l","e","n","g","t","h">>
      declared == IF name \in DOMAIN request.headers THEN NatOf(request.headers[name]) ELSE 0
      arrived  == Len(ToBytes(Drop(data, IndexOf(data, Boundary) + 3)))
  IN  /\ requestData' = [requestData EXCEPT ![c] = data]
      /\ IF HasBoundary(data) /\ arrived >= declared
         THEN /\ parsed' = [parsed EXCEPT ![c] = Append(@, request)]
              /\ IF ended[c]
                 THEN /\ errors' = [errors EXCEPT ![c] = Append(@, "ERR_STREAM_WRITE_AFTER_END")]
                      /\ phase' = [phase EXCEPT ![c] = "closed"]
                      /\ UNCHANGED written
                 ELSE /\ written' = [written EXCEPT ![c] = Append(@, HttpResponse(route, tDate))]
                      /\ UNCHANGED <<errors, phase>>
              /\ ended' = [ended EXCEPT ![c] = TRUE]
         ELSE UNCHANGED <<parsed, written, ended, errors, phase>>

\* A 'data' handler that writes the response and leaves the socket open.
OnDataNoEnd(c, chunk, tBody, tDate) ==
  LET data    == requestData[c] \o ToString(chunk)
      request == ParseRequest(data)
      route   == Route(request.method, request.path, tBody)
  IN  /\ requestData' = [requestData EXCEPT ![c] = data]
      /\ IF HasBoundary(data)
         THEN /\ parsed' = [parsed EXCEPT ![c] = Append(@, request)]
              /\ IF ended[c]
                 THEN /\ errors' = [errors EXCEPT ![c] = Append(@, "ERR_STREAM_WRITE_AFTER_END")]
                      /\ phase' = [phase EXCEPT ![c] = "closed"]
                      /\ UNCHANGED written
                 ELSE /\ written' = [written EXCEPT ![c] = Append(@, HttpResponse(route, tDate))]
                      /\ UNCHANGED <<errors, phase>>
              /\ UNCHANGED ended
         ELSE UNCHANGED <<parsed, written, ended, errors, phase>>

\* server.ts 23-123: the 'data' handler on one chunk.  socket.write() on a
\* socket whose writable side is already ended writes nothing, emits
\* ERR_STREAM_WRITE_AFTER_END on 'error' and destroys the socket.
OnData(c, chunk, tBody, tDate) ==
  LET data    == requestData[c] \o ToString(chunk)
      request == ParseRequest(data)
      route   == Route(request.method, request.path, tBody)
  IN  /\ requestData' = [requestData EXCEPT ![c] = data]
      /\ IF HasBoundary(data)
         THEN /\ parsed' = [parsed EXCEPT ![c] = Append(@, request)]
              /\ IF ended[c]
                 THEN /\ errors' = [errors EXCEPT ![c] = Append(@, "ERR_STREAM_WRITE_AFTER_END")]
                      /\ phase' = [phase EXCEPT ![c] = "closed"]
                      /\ UNCHANGED written
                 ELSE /\ written' = [written EXCEPT ![c] = Append(@, HttpResponse(route, tDate))]
                      /\ UNCHANGED <<errors, phase>>
              /\ ended' = [ended EXCEPT ![c] = TRUE]
         ELSE UNCHANGED <<parsed, written, ended, errors, phase>>

\* The transport delivers the next n bytes of the peer as one chunk.
Deliver(c, n) ==
  /\ phase[c] = "open"
  /\ ~peerEnded[c]
  /\ n \in 1..Len(pending[c])
  /\ pending' = [pending EXCEPT ![c] = Drop(@, n)]
  /\ received' = [received EXCEPT ![c] = @ \o Take(pending[c], n)]
  /\ \E i \in 1..Len(Clock) : \E j \in i..Len(Clock) :
       OnData(c, Take(pending[c], n), Clock[i], Clock[j])
  /\ UNCHANGED <<peer, peerEnded>>
  /\ UNCHANGED <<clientVars, scriptVars>>

\* A chunk is any non-empty prefix of what is still to come.
Data(c) == \E n \in 1..Len(pending[c]) : Deliver(c, n)

\* All of the peer's bytes arrive as one chunk.
DataWhole(c) == received[c] = <<>> /\ Deliver(c, Len(pending[c]))

\* An 'end' handler that flushes: it parses and answers whatever has arrived.
OnEndFlush(c) ==
  LET request == ParseRequest(requestData[c])
      route   == Route(request.method, request.path, Clock[1])
  IN  /\ peerEnded' = [peerEnded EXCEPT ![c] = TRUE]
      /\ ended' = [ended EXCEPT ![c] = TRUE]
      /\ phase' = [phase EXCEPT ![c] = "closed"]
      /\ parsed' = [parsed EXCEPT ![c] = Append(@, request)]
      /\ written' = [written EXCEPT ![c] = Append(@, HttpResponse(route, Clock[1]))]
      /\ UNCHANGED <<requestData, errors>>

\* server.ts 125-127: the 'end' handler only logs.  The socket was created
\* without allowHalfOpen, so it ends its own writable side and closes.
OnEnd(c) ==
  /\ peerEnded' = [peerEnded EXCEPT ![c] = TRUE]
  /\ ended' = [ended EXCEPT ![c] = TRUE]
  /\ phase' = [phase EXCEPT ![c] = "closed"]
  /\ UNCHANGED <<requestData, parsed, written, errors>>

\* The peer finishes its side, whether or not it sent all it set out to send.
End(c) ==
  /\ phase[c] = "open"
  /\ ~peerEnded[c]
  /\ OnEnd(c)
  /\ UNCHANGED <<peer, pending, received>>
  /\ UNCHANGED <<clientVars, scriptVars>>

\* server.ts 129-131: the 'error' handler only logs; the socket is destroyed.
OnError(c, err) ==
  /\ errors' = [errors EXCEPT ![c] = Append(@, err)]
  /\ phase' = [phase EXCEPT ![c] = "closed"]
  /\ UNCHANGED <<requestData, parsed, written, ended, peerEnded>>

\* The transport fails on the connection.
Error(c) ==
  /\ phase[c] = "open"
  /\ OnError(c, "ECONNRESET")
  /\ UNCHANGED <<peer, pending, received>>
  /\ UNCHANGED <<clientVars, scriptVars>>

\* Everything that can happen on connection c when its peer sends one of requests.
Serve(c, requests) ==
  \/ \E r \in requests : Connection(c, r, RequestText(r))
  \/ Data(c)
  \/ End(c)
  \/ Error(c)

\* The server with one client: the second connection is never opened.
Next == Serve("c1", Requests)

Spec == Init /\ [][Next]_vars

\* The server with two clients at once, each sending a short request; their
\* connections, chunks, ends and errors interleave in every order.
ShortRequests ==
  { Request(StartOneToken, <<>>, CRLF, <<>>),
    Request(<<"G","E","T",SP,"/">>, <<>>, CRLF, <<>>) }

NextConcurrent == \E c \in Conns : Serve(c, ShortRequests)

SpecConcurrent == Init /\ [][NextConcurrent]_vars

\* The decoder as a function of the request text: the whole request arrives
\* as one chunk on a fresh connection.
NextDecoder ==
  \/ \E r \in DecoderRequests : Connection("c1", r, RequestText(r))
  \/ DataWhole("c1")

SpecDecoder == Init /\ [][NextDecoder]_vars

\* The client's encoder against the server's decoder: the request
\* makeRawRequest builds arrives as one chunk on a fresh connection.
NextRoundTrip ==
  \/ \E o \in ClientOptions : Connection("c1", o, MakeRawRequest(o))
  \/ DataWhole("c1")

SpecRoundTrip == Init /\ [][NextRoundTrip]_vars

(***************************************************************************)
(* The client script: client.ts, makeRawRequest and its top-level caller   *)
(***************************************************************************)
\* What the servers of the clients answer; a server may also close, fail or
\* fall silent after any part of it.
ReplyOk ==
  <<"H","T","T","P","/","1",".","1"," ","2","0","0"," ","O","K","\r","\n","A",":"," ","b","\r",
    "\n","\r","\n","h","i">>

ReplyNotFound ==
  <<"H","T","T","P","/","1",".","1"," ","4","0","4"," ","N","o","t"," ","F","o","u","n","d",
    "\r","\n","\r","\n">> \o <<EAcute>>

ReplyServerError ==
  <<"H","T","T","P","/","1",".","1"," ","5","0","0"," ","I","n","t","e","r","n","a","l"," ","S",
    "e","r","v","e","r"," ","E","r","r","o","r","\r","\n","\r","\n">>

Replies == {ReplyOk, ReplyNotFound, ReplyServerError}

\* The calls of makeRawRequest: the one of client.ts 86-94, and one with a
\* header and a body.
CallOptions ==
  { [kind |-> "client", method |-> MethodGet, path |-> PathRoot, host |-> HostLocal,
     headers |-> <<>>, body |-> <<>>],
    [kind |-> "client", method |-> MethodPost, path |-> PathJson, host |-> HostLocal,
     headers |-> <<<<NameAccept, ValueJson>>>>, body |-> BodyHi] }

\* resolve(value) and reject(value): only the first call settles the promise.
Resolve(promise, value) ==
  IF promise.state = "pending" THEN [state |-> "resolved", value |-> value] ELSE promise
Reject(promise, value) ==
  IF promise.state = "pending" THEN [state |-> "rejected", value |-> value] ELSE promise

\* client.ts 86-94 and 13-20: the script calls makeRawRequest, which makes the
\* promise and starts to connect; the script waits for the promise.
MakeRawRequestCall(o) ==
  /\ client.script = "start"
  /\ client' = [client EXCEPT !.state = "connecting", !.options = o,
                              !.connects = @ + 1, !.script = "awaiting"]
  /\ UNCHANGED <<serverVars, raw, fetch, scriptVars>>

\* client.ts 21-53: the connect callback builds the request and writes it.
\* reply is what the server will send back.
ClientOnConnect(reply) ==
  /\ client.script # "crashed"
  /\ client.state = "connecting"
  /\ client' = [client EXCEPT !.state = "open", !.sent = MakeRawRequest(client.options),
                              !.inbound = ToBytes(reply)]
  /\ UNCHANGED <<serverVars, raw, fetch, scriptVars>>

\* A 'data' handler that resolves the promise as soon as the response holds
\* CR LF CR LF.
ClientOnDataResolve(n) ==
  LET response == client.response \o ToString(Take(client.inbound, n))
  IN  /\ client.script # "crashed"
      /\ client.state = "open"
      /\ n \in 1..Len(client.inbound)
      /\ client' = [client EXCEPT !.response = response,
                                  !.inbound = Drop(@, n),
                                  !.promise = IF Includes(response, CRLF \o CRLF)
                                              THEN Resolve(@, response) ELSE @]
      /\ UNCHANGED <<serverVars, raw, fetch, scriptVars>>

\* client.ts 58-60: the 'data' handler on a chunk of n bytes.
ClientOnData(n) ==
  /\ client.script # "crashed"
  /\ client.state = "open"
  /\ n \in 1..Len(client.inbound)
  /\ client' = [client EXCEPT !.response = @ \o ToString(Take(client.inbound, n)),
                              !.inbound = Drop(@, n)]
  /\ UNCHANGED <<serverVars, raw, fetch, scriptVars>>

\* client.ts 62-77: the 'end' handler prints the response as headers and body
\* and resolves the promise with the whole response.
ClientOnEnd ==
  LET parts == Split(client.response, CRLF \o CRLF)
  IN  /\ client.script # "crashed"
      /\ client.state = "open"
      /\ client' = [client EXCEPT
                      !.state = "ended",
                      !.shown = Some([rawHeaders |-> parts[1],
                                      body |-> Join(Tail(parts), CRLF \o CRLF)]),
                      !.promise = Resolve(@, client.response)]
      /\ UNCHANGED <<serverVars, raw, fetch, scriptVars>>

\* client.ts 79-83: the 'error' handler prints the error and rejects the
\* promise.  The connection is refused, or it fails once established, also
\* after the server has ended its side.
ClientOnError ==
  LET err == IF client.state = "connecting" THEN "ECONNREFUSED" ELSE "ECONNRESET"
  IN  /\ client.script # "crashed"
      /\ client.state \in {"connecting", "open", "ended"}
      /\ client' = [client EXCEPT !.state = "failed", !.promise = Reject(@, err)]
      /\ UNCHANGED <<serverVars, raw, fetch, scriptVars>>

\* client.ts 86-94: the top-level await, outside any try block.  On a resolved
\* promise the script goes on to line 96; a rejected promise is thrown at the
\* top level of the module, where nothing catches it: the process prints the
\* error and exits.
ClientAwait ==
  /\ client.script = "awaiting"
  /\ client.promise.state # "pending"
  /\ client' = [client EXCEPT !.script = IF client.promise.state = "resolved"
                                         THEN "continued" ELSE "crashed"]
  /\ UNCHANGED <<serverVars, raw, fetch, scriptVars>>

NextClient ==
  \/ \E o \in CallOptions : MakeRawRequestCall(o)
  \/ \E reply \in Replies : ClientOnConnect(reply)
  \/ \E n \in 1..Len(client.inbound) : ClientOnData(n)
  \/ ClientOnEnd
  \/ ClientOnError
  \/ ClientAwait

SpecClient == Init /\ [][NextClient]_vars

(***************************************************************************)
(* raw-tcp-experiment.ts: rawHttpRequest                                   *)
(***************************************************************************)
HostExample ==
  <<"e","x","a","m","p","l","e",".","c","o","m">>

RawUserAgent ==
  <<"U","s","e","r","-","A","g","e","n","t",":"," ","R","a","w","T","C","P","-","C","l","i","e",
    "n","t","/","1",".","0">>

RawAccept ==
  <<"A","c","c","e","p","t",":"," ","*","/","*">>

\* raw-tcp-experiment.ts 29-35: the request text
RawRequestText(host, path) ==
  MethodGet \o <<SP>> \o path \o ProtocolSuffix \o CRLF
  \o HostName \o host \o CRLF
  \o ConnectionClose \o CRLF
  \o RawUserAgent \o CRLF
  \o RawAccept \o CRLF
  \o CRLF

\* A status line decoder that takes the third token alone for the status text.
ParseResponseThirdToken(responseData) ==
  LET parts      == Split(responseData, CRLF \o CRLF)
      rawHeaders == parts[1]
      statusLine == Split(rawHeaders, CRLF)[1]
      tokens     == Split(statusLine, <<SP>>)
  IN  [rawHeaders |-> rawHeaders,
       body       |-> Join(Tail(parts), CRLF \o CRLF),
       protocol   |-> tokens[1],
       statusCode |-> IF Len(tokens) >= 2 THEN Some(tokens[2]) ELSE Undefined,
       statusText |-> IF Len(tokens) >= 3 THEN tokens[3] ELSE <<>>]

\* raw-tcp-experiment.ts 65-89: the response split into headers and body, and
\* the status line split on single spaces into protocol, status code and the
\* rest re-joined with spaces.
ParseResponse(responseData) ==
  LET parts      == Split(responseData, CRLF \o CRLF)
      rawHeaders == parts[1]
      statusLine == Split(rawHeaders, CRLF)[1]
      tokens     == Split(statusLine, <<SP>>)
  IN  [rawHeaders |-> rawHeaders,
       body       |-> Join(Tail(parts), CRLF \o CRLF),
       protocol   |-> tokens[1],
       statusCode |-> IF Len(tokens) >= 2 THEN Some(tokens[2]) ELSE Undefined,
       statusText |-> IF Len(tokens) >= 3 THEN Join(SubSeq(tokens, 3, Len(tokens)), <<SP>>)
                      ELSE <<>>]

\* raw-tcp-experiment.ts 18-22 and 100: the call starts to connect and arms
\* the idle timeout.
RawHttpRequest(host, path) ==
  /\ raw.state = "idle"
  /\ raw' = [raw EXCEPT !.state = "connecting", !.host = host, !.path = path]
  /\ UNCHANGED <<serverVars, client, fetch, scriptVars>>

\* raw-tcp-experiment.ts 22-45: the connect callback writes the request.
RawOnConnect(reply) ==
  /\ raw.state = "connecting"
  /\ raw' = [raw EXCEPT !.state = "open", !.sent = RawRequestText(raw.host, raw.path),
                        !.inbound = ToBytes(reply)]
  /\ UNCHANGED <<serverVars, client, fetch, scriptVars>>

\* raw-tcp-experiment.ts 51-55: the 'data' handler on a chunk of n bytes.
RawOnData(n) ==
  /\ raw.state = "open"
  /\ n \in 1..Len(raw.inbound)
  /\ raw' = [raw EXCEPT !.chunkCount = @ + 1,
                        !.responseData = @ \o ToString(Take(raw.inbound, n)),
                        !.inbound = Drop(@, n)]
  /\ UNCHANGED <<serverVars, client, fetch, scriptVars>>

\* raw-tcp-experiment.ts 58-92: the 'end' handler parses and prints what has
\* been accumulated.
RawOnEnd ==
  /\ raw.state = "open"
  /\ raw' = [raw EXCEPT !.state = "ended", !.result = Some(ParseResponse(raw.responseData))]
  /\ UNCHANGED <<serverVars, client, fetch, scriptVars>>

\* raw-tcp-experiment.ts 95-97: the 'error' handler prints the error.
RawOnError ==
  /\ raw.state \in {"connecting", "open"}
  /\ raw' = [raw EXCEPT !.state = "failed",
                        !.errors = Append(@, IF raw.state = "connecting" THEN "ECONNREFUSED"
                                             ELSE "ECONNRESET")]
  /\ UNCHANGED <<serverVars, client, fetch, scriptVars>>

\* A timeout callback that ends the writable side only (socket.end()): the
\* socket stays readable.
RawOnTimeoutEnd ==
  /\ raw.state \in {"connecting", "open"}
  /\ ~raw.timedOut
  /\ raw' = [raw EXCEPT !.timedOut = TRUE]
  /\ UNCHANGED <<serverVars, client, fetch, scriptVars>>

\* raw-tcp-experiment.ts 100-103: the timeout callback destroys the socket; a
\* destroyed socket emits neither 'data' nor 'end'.
RawOnTimeout ==
  /\ raw.state \in {"connecting", "open"}
  /\ raw' = [raw EXCEPT !.state = "destroyed", !.timedOut = TRUE]
  /\ UNCHANGED <<serverVars, client, fetch, scriptVars>>

NextRaw ==
  \/ \E path \in {PathRoot, PathJson} : RawHttpRequest(HostExample, path)
  \/ \E reply \in Replies : RawOnConnect(reply)
  \/ \E n \in 1..Len(raw.inbound) : RawOnData(n)
  \/ RawOnEnd
  \/ RawOnError
  \/ RawOnTimeout

(***************************************************************************)
(* The HTTPS client script: fetchData                                      *)
(***************************************************************************)
JsonPost ==
  <<"{","\"","i","d","\"",":","1","}">>

\* What the HTTPS servers answer: a status code and a body.
FetchReplies ==
  { [statusCode |-> <<"2","0","0">>, body |-> JsonPost],
    [statusCode |-> <<"4","0","4">>, body |-> <<"{","}">>],
    [statusCode |-> <<"2","0","0">>, body |-> <<EAcute>>] }

\* JSON.parse on the texts above and their parts: an object with no member,
\* or with the one member "id" holding digits, parses; any other text throws.
JsonParse(text) ==
  LET open   == <<"{","\"","i","d","\"",":">>
      digits == {"0","1","2","3","4","5","6","7","8","9"}
      number == SubSeq(text, Len(open) + 1, Len(text) - 1)
  IN  IF text = <<"{","}">> THEN [ok |-> TRUE, id |-> Undefined]
      ELSE IF /\ Len(text) > Len(open) + 1
              /\ OccursAt(text, open, 1)
              /\ text[Len(text)] = "}"
              /\ \A i \in 1..Len(number) : number[i] \in digits
              /\ (number[1] # "0" \/ Len(number) = 1)
           THEN [ok |-> TRUE, id |-> Some(number)]
      ELSE [ok |-> FALSE, id |-> Undefined]

\* Buffer.concat(chunks)
RECURSIVE Concat(_)
Concat(chunks) == IF Len(chunks) = 0 THEN <<>> ELSE chunks[1] \o Concat(Tail(chunks))

\* fetchData 3-18 and 88-90: the request is made, its timeout set, and ended.
FetchData ==
  /\ fetch.state = "idle"
  /\ fetch' = [fetch EXCEPT !.state = "requesting"]
  /\ UNCHANGED <<serverVars, client, raw, scriptVars>>

\* fetchData 18-33: the response callback prints the status and the headers the
\* library parsed; the body is still to come.
FetchOnResponse(reply) ==
  /\ fetch.state = "requesting"
  /\ fetch' = [fetch EXCEPT !.state = "responding", !.meta = Some(reply.statusCode),
                            !.inbound = ToBytes(reply.body)]
  /\ UNCHANGED <<serverVars, client, raw, scriptVars>>

\* fetchData 35-44: the 'data' handler prints a preview of the chunk and keeps
\* the chunk.
FetchOnData(n) ==
  /\ fetch.state = "responding"
  /\ n \in 1..Len(fetch.inbound)
  /\ fetch' = [fetch EXCEPT !.chunkCount = @ + 1,
                            !.previews = Append(@, ToString(Take(fetch.inbound, n))),
                            !.chunks = Append(@, Take(fetch.inbound, n)),
                            !.inbound = Drop(@, n)]
  /\ UNCHANGED <<serverVars, client, raw, scriptVars>>

\* fetchData 46-74: the 'end' handler joins the chunks and parses them as JSON
\* inside a try block.
FetchOnEnd ==
  LET completedData == Concat(fetch.chunks)
  IN  /\ fetch.state = "responding"
      /\ fetch.inbound = <<>>
      /\ fetch' = [fetch EXCEPT
                     !.state = "ended",
                     !.result = Some([totalBytes |-> Len(completedData),
                                      json |-> JsonParse(ToString(completedData))])]
      /\ UNCHANGED <<serverVars, client, raw, scriptVars>>

\* fetchData 77-79: the request's 'error' handler prints the error of a
\* request that fails before its response begins.
FetchOnError ==
  /\ fetch.state = "requesting"
  /\ fetch' = [fetch EXCEPT !.state = "failed", !.errors = Append(@, "ECONNRESET")]
  /\ UNCHANGED <<serverVars, client, raw, scriptVars>>

\* fetchData 81-86: the socket's 'timeout' handler destroys the request; the
\* response of a destroyed request emits neither 'data' nor 'end'.
FetchOnTimeout ==
  /\ fetch.state \in {"requesting", "responding"}
  /\ fetch' = [fetch EXCEPT !.state = "destroyed", !.timedOut = TRUE]
  /\ UNCHANGED <<serverVars, client, raw, scriptVars>>

NextFetch ==
  \/ FetchData
  \/ \E reply \in FetchReplies : FetchOnResponse(reply)
  \/ \E n \in 1..Len(fetch.inbound) : FetchOnData(n)
  \/ FetchOnEnd
  \/ FetchOnError
  \/ FetchOnTimeout

\* The two scripts with a timeout; a run is a run of one of them.
NextTimeout ==
  \/ fetch.state = "idle" /\ NextRaw
  \/ raw.state = "idle" /\ NextFetch

SpecTimeout == Init /\ [][NextTimeout]_vars

(***************************************************************************)
(* The read cache script: consistentReadAsync and its callers              *)
(***************************************************************************)
\* At most MaxCalls calls of consistentReadAsync are made.
MaxCalls == 3

\* The files read, and what a successful read of a file can yield.
Files == {"./test.txt", "./other.txt"}
Contents == {"v1", "v2"}

\* A consistentReadAsync that calls back at once when the file is cached.
ConsistentReadAsyncDirectHit(r, id, filename) ==
  IF filename \in DOMAIN r.cache
  THEN [r EXCEPT !.log = Append(@, [kind |-> "callback", id |-> id, via |-> "direct",
                                    data |-> r.cache[filename]])]
  ELSE [r EXCEPT !.reads = @ \cup {[id |-> id, filename |-> filename]}]

\* Lines 94-103: call number id of consistentReadAsync in the state r: on a
\* cached filename the callback is queued with process.nextTick, otherwise a
\* readFile is started.
ConsistentReadAsync(r, id, filename) ==
  IF filename \in DOMAIN r.cache
  THEN [r EXCEPT !.ticks = Append(@, [id |-> id, filename |-> filename])]
  ELSE [r EXCEPT !.reads = @ \cup {[id |-> id, filename |-> filename]}]

\* Lines 105-109 and 111-115: a caller calls consistentReadAsync and goes on
\* to its next statement, console.log('Hi'); calls may follow one another in
\* the same run or come in later runs.
Call(filename) ==
  LET id      == reader.calls + 1
      entered == [reader EXCEPT !.calls = id,
                                !.log = Append(@, [kind |-> "call", id |-> id])]
      left    == ConsistentReadAsync(entered, id, filename)
  IN  /\ reader.calls < MaxCalls
      /\ reader' = [left EXCEPT !.log = Append(@, [kind |-> "hi", id |-> id])]
      /\ UNCHANGED <<serverVars, clientVars, counter>>

\* Line 96: the queued function runs when the current run has ended, and
\* calls back with what the cache holds then.
NextTick ==
  /\ reader.ticks # <<>>
  /\ reader' = [reader EXCEPT
                  !.ticks = Tail(@),
                  !.log = Append(@, [kind |-> "callback", id |-> reader.ticks[1].id,
                                     via |-> "nextTick",
                                     data |-> reader.cache[reader.ticks[1].filename]])]
  /\ UNCHANGED <<serverVars, clientVars, counter>>

\* Lines 98-101: the callback of a readFile that has finished, with data the
\* content read, or undefined when the read failed: it stores data under the
\* filename and calls back.  It runs in a later run, when the process.nextTick
\* queue is empty.
ReadFileDone(read, data) ==
  /\ read \in reader.reads
  /\ reader.ticks = <<>>
  /\ reader' = [reader EXCEPT
                  !.reads = @ \ {read},
                  !.cache = [f \in (DOMAIN @) \cup {read.filename} |->
                               IF f = read.filename THEN data ELSE @[f]],
                  !.log = Append(@, [kind |-> "callback", id |-> read.id,
                                     via |-> "readFile", data |-> data])]
  /\ UNCHANGED <<serverVars, clientVars, counter>>

NextCache ==
  \/ \E filename \in Files : Call(filename)
  \/ NextTick
  \/ \E read \in reader.reads : \E data \in {Some(v) : v \in Contents} \cup {Undefined} :
       ReadFileDone(read, data)

SpecCache == Init /\ [][NextCache]_vars

(***************************************************************************)
(* word-count-in-file.ts: countWordOccurrences                             *)
(***************************************************************************)
\* The characters \w matches: ASCII letters, digits and the underscore.
WordChars ==
  {UpperCase[i] : i \in 1..Len(UpperCase)} \cup {LowerCase[i] : i \in 1..Len(LowerCase)}
  \cup {"0","1","2","3","4","5","6","7","8","9","_"}

\* line.match(/\b\w+\b/g) || []: the maximal runs of word characters of the
\* line, left to right.
WordStarts(line) ==
  {i \in 1..Len(line) : line[i] \in WordChars /\ (i = 1 \/ line[i - 1] \notin WordChars)}

WordEnds(line) ==
  {i \in 1..Len(line) :
     line[i] \in WordChars /\ (i = Len(line) \/ line[i + 1] \notin WordChars)}

Words(line) ==
  [k \in 1..Cardinality(WordStarts(line)) |->
     LET from == CHOOSE i \in WordStarts(line) :
                   Cardinality({j \in WordStarts(line) : j <= i}) = k
         to   == CHOOSE i \in WordEnds(line) :
                   Cardinality({j \in WordEnds(line) : j <= i}) = k
     IN  SubSeq(line, from, to)]

\* word-count-in-file.ts 30-34: how many of the words are the search word
Matches(words, searchWord) ==
  Cardinality({i \in 1..Len(words) : words[i] = searchWord})

\* The lines of the files read, the files as the lines readline makes of
\* them (an empty file has none), and the words searched for.
WordCotton == <<"c","o","t","t","o","n">>

FileLines ==
  { <<>>,
    WordCotton,
    WordCotton \o <<SP>> \o <<"c","a","n","d","y">> \o <<",",SP>> \o WordCotton \o <<".">>,
    WordCotton \o <<"s",SP,"C","o","t","t","o","n">>,
    WordCotton \o <<"-","m","i","l","l",SP,"_">> \o WordCotton }

MaxLines == 2

TextFiles == SeqsUpTo(FileLines, MaxLines)

SearchWords == {WordCotton, <<"m","i","l","l">>}

\* word-count-in-file.ts 9-13: the file does not exist: the promise is
\* rejected and nothing is opened.
CountMissingFile(searchWord) ==
  /\ counter.state = "idle"
  /\ counter' = [counter EXCEPT !.state = "missing", !.searchWord = searchWord,
                                !.promise = Reject(@, "File not found")]
  /\ UNCHANGED <<serverVars, clientVars, reader>>

\* word-count-in-file.ts 9-25 and 41-43: the file exists: count starts at 0,
\* the stream is opened and read line by line.
CountWordOccurrences(file, searchWord) ==
  /\ counter.state = "idle"
  /\ counter' = [counter EXCEPT !.state = "streaming", !.opened = TRUE, !.file = file,
                                !.lines = file,
                                !.searchWord = searchWord, !.count = 0]
  /\ UNCHANGED <<serverVars, clientVars, reader>>

\* word-count-in-file.ts 27-39: the 'line' handler counts the words of the
\* line that are the search word, and adds a 'close' listener that resolves
\* the promise with the count.
OnLine ==
  /\ counter.state = "streaming"
  /\ counter.lines # <<>>
  /\ counter' = [counter EXCEPT
                   !.lines = Tail(@),
                   !.count = @ + Matches(Words(counter.lines[1]), counter.searchWord),
                   !.closeListeners = @ + 1]
  /\ UNCHANGED <<serverVars, clientVars, reader>>

\* The file is read to its end and readline emits 'close': every 'close'
\* listener added so far runs resolve(count) (word-count-in-file.ts 36-38).
OnClose ==
  /\ counter.state = "streaming"
  /\ counter.lines = <<>>
  /\ counter' = [counter EXCEPT
                   !.state = "closed",
                   !.resolves = @ + counter.closeListeners,
                   !.promise = IF counter.closeListeners > 0
                               THEN Resolve(@, counter.count) ELSE @]
  /\ UNCHANGED <<serverVars, clientVars, reader>>

\* word-count-in-file.ts 41: the stream fails while it is read: reject.
OnStreamError ==
  /\ counter.state = "streaming"
  /\ counter' = [counter EXCEPT !.state = "failed", !.promise = Reject(@, "EIO")]
  /\ UNCHANGED <<serverVars, clientVars, reader>>

NextCount ==
  \/ \E searchWord \in SearchWords : CountMissingFile(searchWord)
  \/ \E file \in TextFiles : \E searchWord \in SearchWords :
       CountWordOccurrences(file, searchWord)
  \/ OnLine
  \/ OnClose
  \/ OnStreamError

\* The event loop goes on as long as an event is due.
SpecCount == Init /\ [][NextCount]_vars /\ WF_vars(NextCount)

(***************************************************************************)
(* Properties                                                              *)
(***************************************************************************)
\* The four bytes CR LF CR LF occur in s, position by position.
SeenBoundary(s) ==
  \E i \in 1..(Len(s) - 3) :
    s[i] = CR /\ s[i + 1] = LF /\ s[i + 2] = CR /\ s[i + 3] = LF

\* The method, path, protocol and header mapping of a parsed request.
Fields(request) == <<request.method, request.path, request.protocol, request.headers>>

\* C1: on every connection, while the accumulated buffer does not contain
\* CR LF CR LF nothing has been parsed and no response has been written; a
\* parse or a response exists only in states whose buffer contains it.
C1_ParseOnlyAfterBoundary ==
  \A c \in Conns :
    ~SeenBoundary(requestData[c]) => (parsed[c] = <<>> /\ written[c] = <<>>)

\* C1 witness: a first line and its CR LF have arrived, the boundary has not,
\* and nothing is parsed or written.
C1_Witness ==
  \E c \in Conns :
    /\ phase[c] = "open"
    /\ \E i \in 1..(Len(requestData[c]) - 1) :
         requestData[c][i] = CR /\ requestData[c][i + 1] = LF
    /\ ~SeenBoundary(requestData[c])
    /\ parsed[c] = <<>>
    /\ written[c] = <<>>

\* C2: once the boundary has been found on a connection, the message is parsed
\* and dispatched exactly once: later data events neither parse the buffer
\* again nor write a second response.
C2_ParsedOncePerMessage ==
  \A c \in Conns : Len(parsed[c]) <= 1 /\ Len(written[c]) <= 1

\* C3: however the bytes received so far were cut into chunks, each parse the
\* decoder made yields the method, path, protocol and header mapping that the
\* same bytes yield when they arrive as a single chunk.
C3_ChunkBoundaryIndependence ==
  \A c \in Conns :
    \A k \in 1..Len(parsed[c]) :
      Fields(parsed[c][k]) = Fields(ParseRequest(ToString(received[c])))

\* C10: when the peer has closed and the buffer never came to contain
\* CR LF CR LF, no message was parsed and no response was written.
C10_CloseBeforeBoundary ==
  \A c \in Conns :
    (peerEnded[c] /\ ~SeenBoundary(requestData[c]))
      => (parsed[c] = <<>> /\ written[c] = <<>>)

\* C10 witness: the peer closed after 'GET / HTTP/1.1\r\nHost: x'.
C10_Witness ==
  /\ peerEnded["c1"]
  /\ requestData["c1"] = StartRoot \o CRLF \o HeaderHostX
  /\ parsed["c1"] = <<>>
  /\ written["c1"] = <<>>

(***************************************************************************)
(* Properties of the decoder as a function of the request                  *)
(***************************************************************************)
ProtocolHttp11 ==
  <<"H","T","T","P","/","1",".","1">>

NameContentType ==
  <<"c","o","n","t","e","n","t","-","t","y","p","e">>

ValueHostPort ==
  <<"l","o","c","a","l","h","o","s","t",":","8","0","8","0">>

NotFoundUndefinedBody ==
  <<"4","0","4"," ","-"," ","P","a","t","h"," ","\"","u","n","d","e","f","i","n","e","d","\"",
    " ","n","o","t"," ","f","o","u","n","d">>

\* The connection's peer sent a request with CR LF line ends and the decoder
\* has parsed it.
Decoded(c) == peer[c].kind = "raw" /\ peer[c].eol = CRLF /\ parsed[c] # <<>>

\* The position of the first colon of a line, 0 when it has none.
FirstColon(line) ==
  IF \E i \in 1..Len(line) : line[i] = COLON
  THEN CHOOSE i \in 1..Len(line) :
         line[i] = COLON /\ \A j \in 1..(i - 1) : line[j] # COLON
  ELSE 0

HasColon(line) == FirstColon(line) > 0

\* The line has a colon and some text before its first colon.
HasName(line) == FirstColon(line) > 1

NameOf(line) == ToLowerCase(Trim(SubSeq(line, 1, FirstColon(line) - 1)))
ValueOf(line) == Trim(SubSeq(line, FirstColon(line) + 1, Len(line)))

\* C5 as the claim states it: every header line with a colon is decoded to
\* the key before its first colon and the value after it.
C5_EveryColonLineSplit ==
  \A c \in Conns :
    Decoded(c) =>
      LET hl == peer[c].headerLines
          headers == parsed[c][1].headers
      IN  \A i \in 1..Len(hl) :
            ( /\ HasColon(hl[i])
              /\ \A j \in (i + 1)..Len(hl) :
                   ~(HasColon(hl[j]) /\ NameOf(hl[j]) = NameOf(hl[i])) )
            => ( /\ NameOf(hl[i]) \in DOMAIN headers
                 /\ headers[NameOf(hl[i])] = ValueOf(hl[i]) )

\* C5: every header line with some text before its first colon is split on
\* that colon only: the key is the text before it, trimmed and lower-cased, and
\* the value is all the text after it, further colons included, trimmed (when
\* no later line has the same key).
C5_FirstColonSplit ==
  \A c \in Conns :
    Decoded(c) =>
      LET hl == peer[c].headerLines
          headers == parsed[c][1].headers
      IN  \A i \in 1..Len(hl) :
            ( /\ HasName(hl[i])
              /\ \A j \in (i + 1)..Len(hl) :
                   ~(HasName(hl[j]) /\ NameOf(hl[j]) = NameOf(hl[i])) )
            => ( /\ NameOf(hl[i]) \in DOMAIN headers
                 /\ headers[NameOf(hl[i])] = ValueOf(hl[i]) )

\* C5 witness: 'Content-Type: application/json' and 'Host: localhost:8080'
\* were decoded to content-type -> application/json and host -> localhost:8080.
C5_Witness ==
  /\ Decoded("c1")
  /\ peer["c1"].headerLines = <<HeaderContentType, HeaderHostPort>>
  /\ DOMAIN parsed["c1"][1].headers = {NameContentType, NameHostLower}
  /\ parsed["c1"][1].headers[NameContentType] = ValueJson
  /\ parsed["c1"][1].headers[NameHostLower] = ValueHostPort

\* The tokens of a line: its maximal runs of non-whitespace characters.
TokenStarts(line) ==
  {i \in 1..Len(line) :
     line[i] \notin WhiteSpace /\ (i = 1 \/ line[i - 1] \in WhiteSpace)}

TokenCount(line) == Cardinality(TokenStarts(line))

NthTokenStart(line, k) ==
  CHOOSE i \in TokenStarts(line) :
    Cardinality({j \in TokenStarts(line) : j <= i}) = k

TokenEnd(line, from) ==
  CHOOSE e \in from..Len(line) :
    /\ \A j \in from..e : line[j] \notin WhiteSpace
    /\ (e = Len(line) \/ line[e + 1] \in WhiteSpace)

Token(line, k) == SubSeq(line, NthTokenStart(line, k), TokenEnd(line, NthTokenStart(line, k)))

\* C6 as the claim states it: the start line is split on runs of whitespace
\* and the text from the third token to the end of the line is the third field.
C6_SplitOnRunsAndFold ==
  \A c \in Conns :
    (Decoded(c) /\ TokenCount(peer[c].startLine) >= 3) =>
      LET line == peer[c].startLine
      IN  /\ parsed[c][1].method = Some(Token(line, 1))
          /\ parsed[c][1].path = Some(Token(line, 2))
          /\ parsed[c][1].protocol = Some(SubSeq(line, NthTokenStart(line, 3), Len(line)))

\* The pieces of a line between its space characters.
Spaces(line) == {i \in 1..Len(line) : line[i] = SP}

\* The position of the k-th space; 0 for k = 0, one past the end when the
\* line has fewer than k spaces.
NthSpace(line, k) ==
  IF k = 0 THEN 0
  ELSE IF k > Cardinality(Spaces(line)) THEN Len(line) + 1
  ELSE CHOOSE i \in Spaces(line) : Cardinality({j \in Spaces(line) : j <= i}) = k

Piece(line, k) ==
  IF k <= Cardinality(Spaces(line)) + 1
  THEN Some(SubSeq(line, NthSpace(line, k - 1) + 1, NthSpace(line, k) - 1))
  ELSE Undefined

\* C6: the start line is cut at every single space; the first three pieces
\* are the method, path and protocol, a piece that does not exist is absent,
\* and pieces after the third are dropped; 'GET /json HTTP/1.1' gives 'GET',
\* '/json', 'HTTP/1.1'.
C6_SplitOnSingleSpaces ==
  \A c \in Conns :
    Decoded(c) =>
      LET line == peer[c].startLine
      IN  /\ parsed[c][1].method = Piece(line, 1)
          /\ parsed[c][1].path = Piece(line, 2)
          /\ parsed[c][1].protocol = Piece(line, 3)
          /\ line = StartJson =>
               /\ parsed[c][1].method = Some(MethodGet)
               /\ parsed[c][1].path = Some(PathJson)
               /\ parsed[c][1].protocol = Some(ProtocolHttp11)

\* C6 witness: 'GET /nope HTTP/1.1 extra' was decoded with protocol 'HTTP/1.1'.
C6_Witness ==
  /\ Decoded("c1")
  /\ peer["c1"].startLine = StartExtra
  /\ parsed["c1"][1].method = Some(MethodGet)
  /\ parsed["c1"][1].protocol = Some(ProtocolHttp11)

\* The request r without its i-th header line.
WithoutLine(r, i) ==
  Request(r.startLine,
          SubSeq(r.headerLines, 1, i - 1) \o SubSeq(r.headerLines, i + 1, Len(r.headerLines)),
          r.eol, r.body)

\* C7: a header line without a colon is skipped: the request is parsed, the
\* line's text is no key of the mapping, and the mapping is the one the same
\* request yields with that line removed.
C7_NoColonLineSkipped ==
  \A c \in Conns :
    Decoded(c) =>
      \A i \in 1..Len(peer[c].headerLines) :
        ~HasColon(peer[c].headerLines[i]) =>
          /\ ToLowerCase(Trim(peer[c].headerLines[i])) \notin DOMAIN parsed[c][1].headers
          /\ parsed[c][1].headers =
               ParseRequest(RequestText(WithoutLine(peer[c], i))).headers

\* C7 witness: 'garbage' stood between two header lines and both were decoded.
C7_Witness ==
  /\ Decoded("c1")
  /\ peer["c1"].headerLines = <<HeaderContentType, HeaderGarbage, HeaderHostPort>>
  /\ DOMAIN parsed["c1"][1].headers = {NameContentType, NameHostLower}
  /\ Len(written["c1"]) = 1

\* C8: the mapping has exactly one entry per header name, names compared
\* without regard to case, and where a name occurs on several lines its value
\* is that of the last of them.
C8_LastDuplicateWins ==
  \A c \in Conns :
    Decoded(c) =>
      LET hl == peer[c].headerLines
          headers == parsed[c][1].headers
          named == {i \in 1..Len(hl) : HasName(hl[i])}
          same(i, j) == NameOf(hl[i]) = NameOf(hl[j])
      IN  /\ DOMAIN headers = {NameOf(hl[i]) : i \in named}
          /\ \A i, j \in named :
               (i < j /\ same(i, j) /\ \A k \in named : (k > j => ~same(j, k)))
                 => headers[NameOf(hl[i])] = ValueOf(hl[j])

\* C8 witness: 'Host: localhost:8080' then 'host: b' left the single entry
\* host -> b.
C8_Witness ==
  /\ Decoded("c1")
  /\ peer["c1"].headerLines = <<HeaderHostPort, HeaderHostLower>>
  /\ DOMAIN parsed["c1"][1].headers = {NameHostLower}
  /\ parsed["c1"][1].headers[NameHostLower] = <<"b">>

\* The response begins with the status line of 404 Not Found.
IsNotFound(response) ==
  LET statusLine == ResponseProtocol \o StatusNotFound \o CRLF
  IN  SubSeq(response, 1, Len(statusLine)) = statusLine

\* The body of a response: the text after its first CR LF CR LF.
BodyOf(response) ==
  LET ends == {i \in 1..(Len(response) - 3) : SubSeq(response, i, i + 3) = CRLF \o CRLF}
      first == CHOOSE i \in ends : \A j \in ends : i <= j
  IN  SubSeq(response, first + 4, Len(response))

\* C9 as the claim states it: with fewer than two tokens on the start line the
\* missing method and path are absent and the answer is 404 Not Found.
C9_MissingFieldsAbsent ==
  \A c \in Conns :
    (Decoded(c) /\ TokenCount(peer[c].startLine) < 2) =>
      /\ TokenCount(peer[c].startLine) = 0 => parsed[c][1].method = Undefined
      /\ parsed[c][1].path = Undefined
      /\ Len(written[c]) = 1
      /\ IsNotFound(written[c][1])

\* C9: when the start line holds no space (it is empty or a single token) the
\* path and the protocol are absent, the method is the start line itself (the
\* empty string for an empty line), and the one response written is 404 Not
\* Found for the path 'undefined'.
C9_ShortStartLineNotFound ==
  \A c \in Conns :
    (Decoded(c) /\ Spaces(peer[c].startLine) = {}) =>
      /\ parsed[c][1].method = Some(peer[c].startLine)
      /\ parsed[c][1].path = Undefined
      /\ parsed[c][1].protocol = Undefined
      /\ Len(written[c]) = 1
      /\ IsNotFound(written[c][1])
      /\ BodyOf(written[c][1]) = NotFoundUndefinedBody

\* C9 witness: the start line 'GET' was answered with 404 Not Found.
C9_Witness ==
  /\ Decoded("c1")
  /\ peer["c1"].startLine = StartOneToken
  /\ parsed["c1"][1].path = Undefined
  /\ IsNotFound(written["c1"][1])

(***************************************************************************)
(* Properties of the encoder with the decoder                              *)
(***************************************************************************)
\* The header set of a request as its caller gave it: Host from the host
\* field, the supplied headers in order, Content-Length for a body; names
\* lower-cased, a later line replacing an earlier one of the same name.
RECURSIVE LowerCased(_, _)
LowerCased(headers, acc) ==
  IF Len(headers) = 0 THEN acc
  ELSE LowerCased(Tail(headers), Put(acc, ToLowerCase(headers[1][1]), headers[1][2]))

OriginalHeaders(o) ==
  LowerCased(
    <<<<NameHostLower, o.host>>>> \o o.headers
      \o (IF o.body # <<>>
          THEN <<<<ToLowerCase(SubSeq(ContentLengthName, 1, Len(ContentLengthName) - 2)),
                   DigitsOf(ByteLength(o.body))>>>>
          ELSE <<>>),
    EmptyRecord)

\* C4: decoding the bytes makeRawRequest produced yields the original method
\* and path and a header mapping equal to the original header set with its
\* names lower-cased.
C4_RoundTrip ==
  \A c \in Conns :
    (peer[c].kind = "client" /\ parsed[c] # <<>>) =>
      /\ parsed[c][1].method = Some(peer[c].method)
      /\ parsed[c][1].path = Some(peer[c].path)
      /\ parsed[c][1].headers = OriginalHeaders(peer[c])

(***************************************************************************)
(* Properties of the router and of the response text                       *)
(***************************************************************************)
\* The text of a response before its first CR LF CR LF, line by line.
HeadLines(response) ==
  Split(Take(response, IndexOf(response, CRLF \o CRLF) - 1), CRLF)

\* The status of a response: its first line after 'HTTP/1.1 '.
StatusOf(response) == Drop(HeadLines(response)[1], Len(ResponseProtocol))

\* The name of a header line is the text before its first ': ', the value the
\* text after it.
LineName(line) == Take(line, IndexOf(line, <<COLON, SP>>) - 1)
LineValue(line) == Drop(line, IndexOf(line, <<COLON, SP>>) + 1)

\* The values of the header lines of a response that carry the name, in order.
HeaderValues(response, name) ==
  LET lines == HeadLines(response)
      at    == {i \in 2..Len(lines) : LineName(lines[i]) = name}
      RECURSIVE Collect(_)
      Collect(i) ==
        IF i > Len(lines) THEN <<>>
        ELSE (IF i \in at THEN <<LineValue(lines[i])>> ELSE <<>>) \o Collect(i + 1)
  IN  Collect(2)

PathTime == <<"/","t","i","m","e">>
RoutedPaths == {PathRoot, PathJson, PathTime}
Quoted(s) == <<"\"">> \o s \o <<"\"">>

\* C11: the response is chosen by exact equality of the decoded path alone:
\* '/' gives 200 OK text/html with the HTML page, '/json' gives 200 OK
\* application/json with a body echoing the decoded method and path, '/time'
\* gives 200 OK text/plain, every other path (an absent one reads 'undefined')
\* gives 404 Not Found text/plain with a body containing that path; the status
\* is 404 exactly when the path is none of the three.
C11_RouteByExactPath ==
  \A c \in Conns :
    (Decoded(c) /\ written[c] # <<>>) =>
      LET request  == parsed[c][1]
          response == written[c][1]
          status   == StatusOf(response)
          type     == HeaderValues(response, <<"C","o","n","t","e","n","t","-","T","y","p","e">>)
          body     == BodyOf(response)
          routed   == request.path # Undefined /\ request.path[1] \in RoutedPaths
      IN  /\ request.path = Some(PathRoot) =>
               status = StatusOk /\ type = <<TextHtml>> /\ body = HtmlBody
          /\ request.path = Some(PathJson) =>
               /\ status = StatusOk
               /\ type = <<ApplicationJson>>
               /\ Includes(body, Quoted(<<"m","e","t","h","o","d">>) \o <<COLON, SP>>
                                   \o Quoted(request.method[1]))
               /\ Includes(body, Quoted(<<"p","a","t","h">>) \o <<COLON, SP>> \o Quoted(PathJson))
          /\ request.path = Some(PathTime) =>
               /\ status = StatusOk
               /\ type = <<TextPlain>>
               /\ Take(body, Len(TimePrefix)) = TimePrefix
          /\ ~routed =>
               /\ type = <<TextPlain>>
               /\ Includes(body, IF request.path = Undefined THEN UndefinedText
                                 ELSE request.path[1])
          /\ status = StatusNotFound <=> ~routed

\* C11 witness: the path '/json/' is not '/json' and was answered 404 Not
\* Found with the path in the body.
C11_Witness ==
  /\ Decoded("c1")
  /\ written["c1"] # <<>>
  /\ parsed["c1"][1].path = Some(PathJson \o <<"/">>)
  /\ IsNotFound(written["c1"][1])
  /\ Includes(BodyOf(written["c1"][1]), PathJson \o <<"/">>)

NameContentLength == <<"C","o","n","t","e","n","t","-","L","e","n","g","t","h">>
NameDate == <<"D","a","t","e">>
NameServer == <<"S","e","r","v","e","r">>

\* C12: every response written, on every route and for 404 as well, has
\* before its first CR LF CR LF exactly one header line each named
\* Content-Type, Content-Length, Connection, Date and Server, the Connection
\* line reading 'close'; the body follows the blank line, and the
\* Content-Length value is the number of bytes the body takes on the wire.
C12_ResponseHeaders ==
  \A c \in Conns : \A k \in 1..Len(written[c]) :
    LET response == written[c][k]
        body     == BodyOf(response)
        One(name) == Len(HeaderValues(response, name)) = 1
    IN  /\ Includes(response, CRLF \o CRLF)
        /\ One(<<"C","o","n","t","e","n","t","-","T","y","p","e">>)
        /\ One(NameContentLength)
        /\ One(NameDate)
        /\ One(NameServer)
        /\ HeaderValues(response, NameConnection) = << <<"c","l","o","s","e">> >>
        /\ HeaderValues(response, NameDate)[1] \in {Utc1, Utc2}
        /\ HeaderValues(response, NameContentLength) = <<DigitsOf(Len(ToBytes(body)))>>
        /\ Join(HeadLines(response), CRLF) \o CRLF \o CRLF \o body = response

\* C12 witness: a 404 response whose body holds a character of several bytes,
\* so that its Content-Length is larger than the body's character count.
C12_Witness ==
  /\ written["c1"] # <<>>
  /\ IsNotFound(written["c1"][1])
  /\ Len(ToBytes(BodyOf(written["c1"][1]))) > Len(BodyOf(written["c1"][1]))
  /\ HeaderValues(written["c1"][1], NameContentLength)
       = <<DigitsOf(Len(ToBytes(BodyOf(written["c1"][1]))))>>

(***************************************************************************)
(* Properties of the client's encoder                                      *)
(***************************************************************************)
\* The bytes the peer of connection c put on the wire, delivered or not.
Wire(c) == received[c] \o pending[c]

\* The connection carries a request makeRawRequest built.
Encoded(c) == phase[c] # "none" /\ peer[c].kind = "client"

\* The header lines of a request on the wire: the lines after the start line
\* and before the first CR LF CR LF.
WireHeaderLines(c) == Tail(HeadLines(Wire(c)))

\* How many of the lines (or of the supplied entries) carry the name,
\* whatever its case.
LinesNamed(lines, name) ==
  Cardinality({i \in 1..Len(lines) : ToLowerCase(LineName(lines[i])) = ToLowerCase(name)})
EntriesNamed(headers, name) ==
  Cardinality({i \in 1..Len(headers) : ToLowerCase(headers[i][1]) = ToLowerCase(name)})

\* C13: the bytes of an encoded request are the start line
\* '<METHOD> <PATH> HTTP/1.1' CR LF, then header lines each of the form
\* '<name>: <value>' CR LF among which the caller's headers stand together as
\* '<Key>: <Value>' in the order supplied, then one blank line, then the bytes
\* of the body if there is one; the first CR LF CR LF of the output ends the
\* header block.
C13_EncodedLayout ==
  \A c \in Conns :
    Encoded(c) =>
      LET o      == peer[c]
          wire   == Wire(c)
          first  == IndexOf(wire, CRLF \o CRLF)
          lines  == WireHeaderLines(c)
          Supplied(i) == ToBytes(o.headers[i][1] \o <<COLON, SP>> \o o.headers[i][2])
      IN  /\ first > 0
          /\ HeadLines(wire)[1] = ToBytes(o.method \o <<SP>> \o o.path \o ProtocolSuffix)
          /\ \A i \in 1..Len(lines) : IndexOf(lines[i], <<COLON, SP>>) > 1
          /\ \E k \in 0..Len(lines) :
               \A i \in 1..Len(o.headers) : k + i <= Len(lines) /\ lines[k + i] = Supplied(i)
          /\ Drop(wire, first + 3) = ToBytes(o.body)

\* C13 witness: a request with two supplied headers and a body was encoded.
C13_Witness ==
  /\ Encoded("c1")
  /\ Len(peer["c1"].headers) = 2
  /\ peer["c1"].body = BodyHi
  /\ Drop(Wire("c1"), IndexOf(Wire("c1"), CRLF \o CRLF) + 3) = BodyHi

\* C14 as the claim states it: an encoded request has a Connection header line
\* only when the caller's headers hold a Connection entry.
C14_ConnectionOnlyWhenSupplied ==
  \A c \in Conns :
    Encoded(c) =>
      (LinesNamed(WireHeaderLines(c), NameConnection) > 0
         => EntriesNamed(peer[c].headers, NameConnection) > 0)

\* C15 as the claim states it: an encoded request has one Host header line
\* from the host field, and one more for each Host entry the caller supplied.
C15_HostOnce ==
  \A c \in Conns :
    Encoded(c) =>
      LinesNamed(WireHeaderLines(c), NameHostLower)
        = 1 + EntriesNamed(peer[c].headers, NameHostLower)

\* C16: an encoded request has a Content-Length header line exactly when the
\* body is not empty; the line stands before the blank line and its value is
\* the number of bytes that follow the blank line, which are the bytes of the
\* body.
C16_ContentLengthIsByteLength ==
  \A c \in Conns :
    Encoded(c) =>
      LET wire      == Wire(c)
          bodyBytes == Drop(wire, IndexOf(wire, CRLF \o CRLF) + 3)
          lengths   == HeaderValues(wire, NameContentLength)
      IN  /\ bodyBytes = ToBytes(peer[c].body)
          /\ lengths = IF peer[c].body = <<>> THEN <<>> ELSE <<DigitsOf(Len(bodyBytes))>>

\* C16 witness: the body is one character of two bytes and Content-Length is 2.
C16_Witness ==
  /\ Encoded("c1")
  /\ peer["c1"].body = BodyAccent
  /\ HeaderValues(Wire("c1"), NameContentLength) = << <<"2">> >>

(***************************************************************************)
(* Properties of the server under concurrent connections                   *)
(***************************************************************************)
\* The responses a request text can be answered with, over the clock values.
Answers(text) ==
  LET request == ParseRequest(text)
  IN  { HttpResponse(Route(request.method, request.path, Clock[i]), Clock[j]) :
          i \in 1..Len(Clock), j \in 1..Len(Clock) }

\* C17: with several connections open and their events interleaved in any
\* order, the buffer of a connection holds exactly the bytes delivered on that
\* connection, and every request parsed and every response written on it is
\* the one of its own peer's request text.
C17_ConnectionsIsolated ==
  \A c \in Conns :
    /\ ToBytes(requestData[c]) = received[c]
    /\ phase[c] # "none" =>
         /\ \A k \in 1..Len(parsed[c]) : parsed[c][k] = ParseRequest(RequestText(peer[c]))
         /\ \A k \in 1..Len(written[c]) : written[c][k] \in Answers(RequestText(peer[c]))

\* C17 witness: both connections are in the middle of different requests, and
\* each buffer holds the part of its own request that has arrived.
C17_Witness ==
  /\ peer["c1"].kind = "raw" /\ peer["c2"].kind = "raw"
  /\ peer["c1"] # peer["c2"]
  /\ \A c \in Conns :
       /\ phase[c] = "open"
       /\ received[c] # <<>>
       /\ pending[c] # <<>>
       /\ requestData[c] = Take(RequestText(peer[c]), Len(received[c]))
  /\ requestData["c1"] # requestData["c2"]

(***************************************************************************)
(* Properties of the clients                                               *)
(***************************************************************************)
\* The state the server keeps for connection c.
ConnState(c) ==
  <<phase[c], peer[c], pending[c], received[c], requestData[c], parsed[c], written[c],
    ended[c], peerEnded[c], errors[c]>>

\* C18 (server): a step in which a connection reports an error closes that
\* connection and changes nothing of any other connection.
C18_ServerErrorIsolated ==
  [][\A c \in Conns :
       Len(errors'[c]) > Len(errors[c]) =>
         /\ phase'[c] = "closed"
         /\ \A d \in Conns \ {c} : ConnState(d)' = ConnState(d)]_vars

\* C18 as the claim states it for the client: a transport error rejects the
\* promise of makeRawRequest with that error, no second connection is
\* attempted, and the process does not crash.
C18_ClientErrorRejectsWithoutCrash ==
  client.state = "failed" =>
    /\ client.promise.state \in {"rejected", "resolved"}
    /\ client.promise.state = "rejected" => client.promise.value \in {"ECONNREFUSED", "ECONNRESET"}
    /\ client.connects = 1
    /\ client.script # "crashed"

\* C19: once the timeout of a connection has fired, nothing parsed from the
\* data accumulated on it exists, then or ever after: rawHttpRequest has
\* split no response and no status line, fetchData has joined and parsed no
\* chunks.
C19_TimeoutDiscards ==
  /\ raw.timedOut => raw.result = Undefined
  /\ fetch.timedOut => fetch.result = Undefined

\* C19 witness: the timeout of rawHttpRequest fired after a whole status line
\* had arrived, and nothing was parsed.
C19_Witness ==
  /\ raw.timedOut
  /\ raw.state = "destroyed"
  /\ Includes(raw.responseData, CRLF)
  /\ raw.result = Undefined

(***************************************************************************)
(* Properties of the server's dispatch                                     *)
(***************************************************************************)
\* C20: whenever the accumulated buffer of a connection holds CR LF CR LF,
\* the request has been parsed and answered: the data event whose chunk
\* completes the boundary dispatches, however the four bytes were cut into
\* chunks, and no state is left waiting for a later event.
C20_DispatchWithBoundary ==
  \A c \in Conns :
    SeenBoundary(requestData[c]) => parsed[c] # <<>> /\ written[c] # <<>>

\* C20 witness: CR LF CR, three of the four boundary bytes, have arrived and
\* the fourth is still to come in a later chunk; nothing is dispatched yet.
C20_Witness ==
  /\ phase["c1"] = "open"
  /\ Len(requestData["c1"]) >= 3
  /\ SubSeq(requestData["c1"], Len(requestData["c1"]) - 2, Len(requestData["c1"])) = <<CR, LF, CR>>
  /\ pending["c1"] # <<>> /\ pending["c1"][1] = LF
  /\ parsed["c1"] = <<>>

(***************************************************************************)
(* Properties of the server's framing                                      *)
(***************************************************************************)
\* The peer's request announces a body: it has the header line
\* 'Content-Length: 4' and CR LF line ends.
AnnouncesBody(c) ==
  /\ peer[c].kind = "raw"
  /\ peer[c].eol = CRLF
  /\ \E i \in 1..Len(peer[c].headerLines) : peer[c].headerLines[i] = HeaderContentLength4

\* The text of a peer's request up to and including its blank line.
HeadText(r) == RequestText(Request(r.startLine, r.headerLines, r.eol, <<>>))

\* C21: a request that announces a body of 4 bytes is parsed and answered as
\* soon as the buffer holds CR LF CR LF, however few bytes of the body have
\* arrived, and the response is the one of the request without any body.
C21_CompleteAtBoundary ==
  \A c \in Conns :
    (AnnouncesBody(c) /\ SeenBoundary(requestData[c])) =>
      /\ parsed[c] # <<>>
      /\ written[c] # <<>>
      /\ written[c][1] \in Answers(HeadText(peer[c]))

\* C21 witness: the request announced 4 body bytes, none of them has arrived,
\* and the response is written.
C21_Witness ==
  /\ AnnouncesBody("c1")
  /\ requestData["c1"] = HeadText(peer["c1"])
  /\ Len(pending["c1"]) = 4
  /\ Len(written["c1"]) = 1

HasLF(line) == \E i \in 1..Len(line) : line[i] = LF

\* C22: only CR LF ends a line.  A request whose text never holds CR LF CR LF,
\* its lines ending in bare LF, is never parsed or answered; in a request that
\* is parsed, a start line or header line that holds a bare LF is decoded as
\* one line, the LF and the text after it being part of its last field or of
\* its value, and the text after the LF makes no header of its own.
C22_OnlyCrLfEndsLine ==
  \A c \in Conns :
    (peer[c].kind = "raw" /\ phase[c] # "none") =>
      /\ ~SeenBoundary(RequestText(peer[c])) => (parsed[c] = <<>> /\ written[c] = <<>>)
      /\ Decoded(c) =>
           LET hl      == peer[c].headerLines
               headers == parsed[c][1].headers
           IN  /\ HasLF(peer[c].startLine) =>
                    /\ parsed[c][1].method = Piece(peer[c].startLine, 1)
                    /\ parsed[c][1].path = Piece(peer[c].startLine, 2)
                    /\ parsed[c][1].protocol = Piece(peer[c].startLine, 3)
               /\ (\E i \in 1..Len(hl) : HasLF(hl[i]))  =>
                    /\ DOMAIN headers = {NameOf(hl[i]) : i \in {j \in 1..Len(hl) : HasName(hl[j])}}
                    /\ \A i \in 1..Len(hl) :
                         (HasLF(hl[i]) /\ HasName(hl[i])) =>
                           headers[NameOf(hl[i])] = ValueOf(hl[i]) /\ HasLF(headers[NameOf(hl[i])])

\* C22 witness: a whole request with bare LF line ends, LF LF included, has
\* arrived and nothing was parsed or written.
C22_Witness ==
  /\ peer["c1"].kind = "raw"
  /\ peer["c1"].eol = <<LF>>
  /\ pending["c1"] = <<>>
  /\ Includes(requestData["c1"], <<LF, LF>>)
  /\ parsed["c1"] = <<>>
  /\ written["c1"] = <<>>

\* C23: the header mapping holds nothing of the body: every key and value of
\* the mapping comes from a line before the first CR LF CR LF, also when the
\* body is in the buffer at dispatch and holds lines of the form
\* 'Name: value', whether their names are new or those of header lines.
C23_BodyLinesNotHeaders ==
  \A c \in Conns :
    Decoded(c) =>
      \A k \in 1..Len(parsed[c]) :
        LET hl      == peer[c].headerLines
            headers == parsed[c][k].headers
        IN  \A key \in DOMAIN headers :
              \E i \in 1..Len(hl) :
                HasName(hl[i]) /\ NameOf(hl[i]) = key /\ headers[key] = ValueOf(hl[i])

\* C23 witness: the body 'Host: z' CR LF 'X: y' was in the buffer at dispatch
\* and the mapping is host -> localhost:8080 alone.
C23_Witness ==
  /\ Decoded("c1")
  /\ peer["c1"].body = BodyHostLike
  /\ Includes(requestData["c1"], BodyHostLike)
  /\ Len(parsed["c1"]) = 1
  /\ DOMAIN parsed["c1"][1].headers = {NameHostLower}
  /\ parsed["c1"][1].headers[NameHostLower] = ValueHostPort

(***************************************************************************)
(* Properties of the clients' decoding                                     *)
(***************************************************************************)
\* C24 as the claim states it: when the stream has ended and the response
\* never held CR LF CR LF, the client has split nothing into headers and body,
\* parsed no status line, and handed no response to its caller.
C24_PartialResponseDropped ==
  /\ (client.state = "ended" /\ ~SeenBoundary(client.response)) =>
       (client.shown = Undefined /\ client.promise.state # "resolved")
  /\ (raw.state = "ended" /\ ~SeenBoundary(raw.responseData)) => raw.result = Undefined

\* The first line of a response text: the text before its first CR LF, the
\* whole text when it has none.
FirstLine(text) ==
  IF IndexOf(text, CRLF) = 0 THEN text ELSE Take(text, IndexOf(text, CRLF) - 1)

\* C25: the status line is decoded into the protocol, the text before its
\* first space; the status code, the text between its first and second space;
\* and the status text, all of the line after the second space, further spaces
\* included: 'HTTP/1.1 404 Not Found' gives 'HTTP/1.1', '404', 'Not Found'.
C25_StatusLineDecoded ==
  raw.result # Undefined =>
    LET line   == FirstLine(raw.responseData)
        result == raw.result[1]
    IN  /\ Some(result.protocol) = Piece(line, 1)
        /\ result.statusCode = Piece(line, 2)
        /\ result.statusText = Drop(line, NthSpace(line, 2))
        /\ line = FirstLine(ReplyNotFound) =>
             /\ result.statusCode = Some(<<"4","0","4">>)
             /\ result.statusText = <<"N","o","t",SP,"F","o","u","n","d">>

\* C25 witness: 'HTTP/1.1 500 Internal Server Error' was decoded with the
\* status text 'Internal Server Error'.
C25_Witness ==
  /\ raw.result # Undefined
  /\ raw.responseData = ReplyServerError
  /\ raw.result[1].statusCode = Some(<<"5","0","0">>)
  /\ raw.result[1].statusText = Drop(FirstLine(ReplyServerError), 13)
  /\ Cardinality(Spaces(raw.result[1].statusText)) = 2

\* C28: the promise of makeRawRequest, once settled, never changes; it is
\* resolved only in the step in which the stream ends, with the response
\* accumulated until then; and every data event appends its chunk, decoded, to
\* the end of the response, so that the response is the chunks in arrival
\* order.
C28_ResolvedOnceAtEnd ==
  /\ [][client.promise.state # "pending" => client.promise' = client.promise]_vars
  /\ [][(client.promise.state = "pending" /\ client.promise'.state = "resolved") =>
          /\ client.state = "open"
          /\ client'.state = "ended"
          /\ client.promise'.value = client.response
          /\ client.response' = client.response]_vars
  /\ [][(client.state = "open" /\ client.inbound' # client.inbound) =>
          LET n == Len(client.inbound) - Len(client.inbound')
          IN  /\ client.inbound' = Drop(client.inbound, n)
              /\ client.response' = client.response \o ToString(Take(client.inbound, n))]_vars

\* C28 witness: the stream ended and resolved the promise with the whole
\* response; the error that came afterwards did not settle it again.
C28_Witness ==
  /\ client.state = "failed"
  /\ client.promise.state = "resolved"
  /\ client.promise.value = client.response
  /\ client.response = ReplyOk

(***************************************************************************)
(* Properties of the server's response and close                           *)
(***************************************************************************)
\* The response is whole: its Content-Length is the number of bytes of the
\* body that follows its blank line.
Complete(response) ==
  /\ Includes(response, CRLF \o CRLF)
  /\ HeaderValues(response, NameContentLength) = <<DigitsOf(Len(ToBytes(BodyOf(response))))>>

\* C27: on every connection whose buffer comes to hold CR LF CR LF the server
\* comes to have written one response and ended its side; a response is
\* written only on a socket not yet ended, whole, and the socket is ended in
\* the same handler call after the write; on an ended socket nothing more is
\* written.
C27_RespondThenClose ==
  /\ \A c \in Conns :
       SeenBoundary(requestData[c]) ~> (Len(written[c]) = 1 /\ ended[c])
  /\ [][\A c \in Conns :
          written'[c] # written[c] =>
            /\ ~ended[c]
            /\ ended'[c]
            /\ written'[c] = Append(written[c], written'[c][Len(written'[c])])
            /\ Complete(written'[c][Len(written'[c])])]_vars
  /\ [][\A c \in Conns : ended[c] => written'[c] = written[c]]_vars

\* C27 witness: after the response and the end of the server's side a further
\* data event came, the buffer was parsed again, and nothing more was written.
C27_Witness ==
  /\ Len(written["c1"]) = 1
  /\ ended["c1"]
  /\ Len(parsed["c1"]) >= 2
  /\ Complete(written["c1"][1])

(***************************************************************************)
(* Properties of the read cache                                            *)
(***************************************************************************)
\* C26 as the claim states it: for every filename at most one read is pending
\* at any moment.
C26_OneReadInFlight ==
  \A f \in Files : Cardinality({read \in reader.reads : read.filename = f}) <= 1

\* C29: a callback of consistentReadAsync runs only after the statement that
\* follows its call has run, whether it was called back from the cache or
\* from a read.
C29_CallbackAfterReturn ==
  \A p \in 1..Len(reader.log) :
    reader.log[p].kind = "callback" =>
      \E q \in 1..(p - 1) : reader.log[q] = [kind |-> "hi", id |-> reader.log[p].id]

\* C29 witness: a call found its file in the cache and was called back, with
\* the cached content, after its caller had gone on.
C29_Witness ==
  \E p \in 1..Len(reader.log) :
    /\ reader.log[p].kind = "callback"
    /\ reader.log[p].via = "nextTick"
    /\ reader.log[p].data # Undefined

\* C30 as the claim states it: the cache holds only what successful reads
\* yielded; a failed read leaves no entry for its filename.
C30_CacheOnlySuccessfulReads ==
  \A f \in DOMAIN reader.cache : reader.cache[f] # Undefined

\* The number of whole-word occurrences of the word in a line: the places
\* where the word stands with no word character before it and none after.
WholeWordAt(line, word, i) ==
  /\ OccursAt(line, word, i)
  /\ (i = 1 \/ line[i - 1] \notin WordChars)
  /\ (i + Len(word) > Len(line) \/ line[i + Len(word)] \notin WordChars)

Occurrences(line, word) ==
  Cardinality({i \in 1..Len(line) : WholeWordAt(line, word, i)})

RECURSIVE OccurrencesInFile(_, _)
OccurrencesInFile(file, word) ==
  IF file = <<>> THEN 0
  ELSE Occurrences(Head(file), word) + OccurrencesInFile(Tail(file), word)

\* C31, the missing file: the promise is rejected with 'File not found' and
\* no stream is opened.
C31_MissingFileRejected ==
  counter.state = "missing" =>
    /\ counter.promise = [state |-> "rejected", value |-> "File not found"]
    /\ ~counter.opened

\* C31, the value: a resolved promise holds the number of whole-word
\* occurrences of the search word over all the lines of the file.
C31_ResolvedWithCount ==
  counter.promise.state = "resolved" =>
    counter.promise.value = OccurrencesInFile(counter.file, counter.searchWord)

\* C31, settled once: a settled promise never changes.
C31_SettledOnce ==
  [][counter.promise.state # "pending" => counter'.promise = counter.promise]_vars

\* C31: for every existing file, the empty file included, the promise of
\* countWordOccurrences settles after the stream closes: it resolves, once,
\* with the number of whole-word occurrences of the search word over all the
\* lines; for a missing file it rejects with 'File not found' and opens no
\* stream.
C31_SettlesAfterClose ==
  /\ [](C31_MissingFileRejected /\ C31_ResolvedWithCount)
  /\ C31_SettledOnce
  /\ (counter.state = "closed") ~> (counter.promise.state = "resolved")

\* A file with lines is resolved when the stream closes.
C31_ClosedWithLinesResolved ==
  (counter.state = "closed" /\ counter.file # <<>>) => counter.promise.state = "resolved"
====
